---- MODULE Spec2Model ----
(***************************************************************************)
(* Model of polyclaw: the trade request (buy_position / split_and_sell /   *)
(* sell_robust / sell_fok), the order-book liquidity walk, the hedge       *)
(* scan's oracle-reply parsing and cover derivation, the coverage metrics  *)
(* and tiers of lib/coverage.py, the arbitrage portfolios, the retry loop  *)
(* of the oracle client and the record parsing of the catalog client.      *)
(*                                                                         *)
(* Prices of the trade and of the scan's markets are integers in cents     *)
(* (0.05 is 5), those of lib/coverage.py and lib/arbitrage.py integers in  *)
(* units of 0.00001; sizes and amounts are integers.  A Python exception   *)
(* is a value: operators return a record with a field exc, actions route   *)
(* a raise to the handler that catches it.                                 *)
(***************************************************************************)
EXTENDS Integers, Sequences, FiniteSets, TLC

VARIABLES
    \* ---- trade request (scripts/trade.py, lib/executor.py, lib/clob_client.py)
    pc,             \* position of the request in buy_position and its callees
    wallet_unlocked,\* WalletManager.is_unlocked
    position,       \* requested position, "YES" or "NO"
    amount,         \* amount_usd
    skip_sell,      \* skip_clob_sell / skip_sell
    proxy,          \* HTTPS_PROXY or HTTP_PROXY is set
    unwanted_price, \* market price of the unwanted token, cents
    has_liquidity,  \* split_and_sell's has_liquidity (the pre-check), "unset" before
    robust_has_liquidity, \* sell_robust's has_liquidity (the re-check)
    split,          \* the on-chain split: built, sent, receipt status
    orders,         \* orders submitted to the exchange (post_order calls), in order
    attempt,        \* sell_fok's loop variable
    last_error,     \* sell_fok's last_error
    fok_ret,        \* what sell_fok returned
    sell_ret,       \* what sell_robust returned
    res,            \* what split_and_sell returned
    result,         \* the TradeResult buy_position returns
    \* ---- liquidity walk on its own (lib/clob_client.py check_liquidity)
    lq_book, lq_side, lq_amount, lq_limit, lq_out,
    \* ---- hedge scan (scripts/hedge.py)
    sc_pc,          \* position in cmd_scan
    sc_markets,     \* markets: as fetched, then the active ones
    sc_i,           \* 1-based index of the target market in the loop
    sc_reply,       \* what the oracle answered for the last target
    sc_parsed,      \* llm_result of the last extraction
    sc_ret,         \* covers the last extraction returned
    sc_called,      \* number of oracle calls made
    sc_portfolios,  \* all_portfolios
    sc_args,        \* args.min_coverage and args.tier as cmd_scan reads them
    sc_printed,     \* the list handed to the print functions
    \* ---- cover derivation on its own (scripts/hedge.py
    \*      derive_covers_from_implications, match_market_to_list)
    dc_pc,          \* "derive" / "match" before the call, "derived" / "matched" after
    dc_markets,     \* other_markets, the candidates
    dc_target,      \* target_market
    dc_llm,         \* llm_result
    dc_ref,         \* the reference match_market_to_list is given
    dc_covers,      \* what derive_covers_from_implications returned
    dc_matched,     \* what match_market_to_list returned
    \* ---- lib/coverage.py on its own (build_portfolio, classify_tier,
    \*      calculate_coverage_metrics)
    cv_pc,          \* the function to call, then "built" / "classified" / "measured"
    cv_in,          \* its arguments
    cv_out,         \* what it returned
    \* ---- arbitrage (lib/arbitrage.py, scripts/scan_arbitrage.py)
    ab_pc,          \* the call to make ("split", "negrisk", "scan"), then where it ended
    ab_in,          \* the markets fetched and the capital
    ab_portfolio,   \* the ArbitragePortfolio built
    ab_steps,       \* what get_execution_steps returned
    \* ---- the oracle client (lib/llm_client.py LLMClient.complete)
    ll_pc,          \* position in complete
    ll_in,          \* the arguments of the call
    ll_payload,     \* the keys of the request body
    ll_attempt,     \* attempt of the loop
    ll_requests,    \* what became of each request sent, in order
    ll_sleeps,      \* the seconds of every asyncio.sleep, in order
    ll_out,         \* what the call returned or raised
    \* ---- the market catalog client (lib/gamma_client.py)
    gm_pc,          \* the function to call ("parse", "search"), then "parsed" / "searched"
    gm_in,          \* its arguments and the reply of the catalog
    gm_out          \* what it returned or raised

tradeVars == <<pc, wallet_unlocked, position, amount, skip_sell, proxy,
               unwanted_price, has_liquidity, robust_has_liquidity, split, orders, attempt, last_error, fok_ret,
               sell_ret, res, result>>
liqVars == <<lq_book, lq_side, lq_amount, lq_limit, lq_out>>
scanVars == <<sc_pc, sc_markets, sc_i, sc_reply, sc_parsed, sc_ret, sc_called,
              sc_portfolios, sc_args, sc_printed>>
coversVars == <<dc_pc, dc_markets, dc_target, dc_llm, dc_ref, dc_covers, dc_matched>>
covVars == <<cv_pc, cv_in, cv_out>>
arbVars == <<ab_pc, ab_in, ab_portfolio, ab_steps>>
llmVars == <<ll_pc, ll_in, ll_payload, ll_attempt, ll_requests, ll_sleeps, ll_out>>
gammaVars == <<gm_pc, gm_in, gm_out>>
vars == <<tradeVars, liqVars, scanVars, coversVars, covVars, arbVars, llmVars, gammaVars>>

-----------------------------------------------------------------------------
(* Bounds and input sets *)

\* Longest order-book side enumerated.
MaxBook == 2

\* CLOB_MAX_RETRIES, default of the environment variable.
CLOB_MAX_RETRIES == 5

\* The floor price both liquidity checks of a trade pass, 0.05, in cents.
LIQUIDITY_FLOOR == 5

BookPrices == {3, 50, 55}
BookSizes == {10, 20}
Amounts == {15, 25}
Limits == {LIQUIDITY_FLOOR, 52}
MarketPrices == {1, 2, 50}

BookEntries == BookPrices \X BookSizes

RECURSIVE SeqsUpTo(_, _)
SeqsUpTo(S, n) ==
    IF n = 0 THEN {<<>>}
    ELSE LET shorter == SeqsUpTo(S, n - 1)
         IN shorter \cup {Append(s, x) : s \in {t \in shorter : Len(t) = n - 1}, x \in S}

BookSides == SeqsUpTo(BookEntries, MaxBook)

\* Order books get_order_book may return.  A trade only sells, so the books
\* of a trade vary in their bids.
Books == [bids : BookSides, asks : BookSides]
TradeBooks == [bids : BookSides, asks : {<<>>}]

\* Substrings an exchange error message may contain (case-insensitively,
\* except "403"); an error message is the set of those it contains.
Markers == {"403", "cloudflare", "blocked", "no match", "insufficient"}
Errors == SUBSET Markers

-----------------------------------------------------------------------------
(* lib/clob_client.py: pure parts *)

\* str.lower() on the side argument.
lower_side(side) ==
    CASE side = "SELL" -> "sell"
      [] side = "BUY" -> "buy"
      [] OTHER -> side

is_cloudflare_block(error_msg) ==
    "403" \in error_msg /\ ("cloudflare" \in error_msg \/ "blocked" \in error_msg)

\* Mutant of liquidity_walk: an entry outside the limit is skipped (continue)
\* where the code stops the walk (break).
RECURSIVE liquidity_walk_continue(_, _, _, _, _)
liquidity_walk_continue(book_side, side, amt, limit_price, total_fillable) ==
    IF book_side = <<>> THEN FALSE
    ELSE LET price == Head(book_side)[1]
             size == Head(book_side)[2]
             isValidPrice == IF lower_side(side) = "sell" THEN price >= limit_price
                             ELSE price <= limit_price
         IN IF isValidPrice
            THEN IF total_fillable + size >= amt THEN TRUE
                 ELSE liquidity_walk_continue(Tail(book_side), side, amt,
                                              limit_price, total_fillable + size)
            ELSE liquidity_walk_continue(Tail(book_side), side, amt, limit_price,
                                         total_fillable)

\* The for loop of check_liquidity over the chosen side, total_fillable so far.
RECURSIVE liquidity_walk(_, _, _, _, _)
liquidity_walk(book_side, side, amt, limit_price, total_fillable) ==
    IF book_side = <<>> THEN FALSE
    ELSE LET price == Head(book_side)[1]
             size == Head(book_side)[2]
             isValidPrice == IF lower_side(side) = "sell" THEN price >= limit_price
                             ELSE price <= limit_price
         IN IF isValidPrice
            THEN IF total_fillable + size >= amt THEN TRUE
                 ELSE liquidity_walk(Tail(book_side), side, amt, limit_price,
                                     total_fillable + size)
            ELSE FALSE

check_liquidity(book, side, amt, min_price) ==
    LET book_orders == IF lower_side(side) = "sell" THEN book.bids ELSE book.asks
    IN liquidity_walk(book_orders, side, amt, min_price, 0)


\* Mutant of fok_error_msg: tests for the no-liquidity words before the block.
fok_error_msg_liquidity_first(error) ==
    IF "no match" \in error \/ "insufficient" \in error
    THEN [kind |-> "No liquidity", raw |-> {}]
    ELSE IF is_cloudflare_block(error)
         THEN [kind |-> "IP blocked by Cloudflare", raw |-> {}]
         ELSE [kind |-> "last_error", raw |-> error]

\* Lines 190-199 of sell_fok: the message returned once the loop is left
\* without a fill.  kind "last_error" is the raw text of the error, kept in raw.
fok_error_msg(error) ==
    IF is_cloudflare_block(error)
    THEN [kind |-> "IP blocked by Cloudflare", raw |-> {}]
    ELSE IF "no match" \in error \/ "insufficient" \in error
         THEN [kind |-> "No liquidity", raw |-> {}]
         ELSE [kind |-> "last_error", raw |-> error]

\* Mutant of fok_retries: retries a block even with no proxy configured.
fok_retries_without_proxy(error, has_proxy) == is_cloudflare_block(error)

\* Lines 183-188 of sell_fok: whether the loop goes on after an error.
fok_retries(error, has_proxy) == is_cloudflare_block(error) /\ has_proxy

-----------------------------------------------------------------------------
(* Values of the trade request *)

NoErr == [kind |-> "None", raw |-> {}]
NoSellRet == [returned |-> FALSE, order_id |-> "None", filled |-> FALSE,
              err |-> "None", fok_err |-> NoErr]
NoFokRet == [returned |-> FALSE, order_id |-> "None", filled |-> FALSE, err |-> NoErr]
NoRes == [returned |-> FALSE, keys |-> {}, success |-> FALSE, split_tx |-> "None",
          clob_order_id |-> "None", clob_error |-> "None"]
NoResult == [returned |-> FALSE, success |-> FALSE, split_tx |-> "None",
             clob_order_id |-> "None", clob_filled |-> FALSE, error |-> "None"]

SuccessKeys == {"success", "split_tx", "clob_order_id", "clob_error", "wanted_token"}

ReceiptStatuses == {0, 1}

\* TradeResult(success=False, ..., error=...) of trade.py lines 59 and 81.
TradeFailed(msg) ==
    [returned |-> TRUE, success |-> FALSE, split_tx |-> "None",
     clob_order_id |-> "None", clob_filled |-> FALSE, error |-> msg]

\* The dict split_and_sell returns at lines 63-69, after sell_robust returned ret.
SplitAndSellReturn(ret) ==
    [returned |-> TRUE, keys |-> SuccessKeys, success |-> TRUE,
     split_tx |-> "0xsplit", clob_order_id |-> ret.order_id, clob_error |-> ret.err]

\* An exception raised inside buy_position's try block: the except clause at
\* trade.py line 80 turns it into a failed TradeResult.
Raise(msg) ==
    /\ result' = TradeFailed(msg)
    /\ pc' = "done"

TradeInit ==
    /\ pc = "buy_position"
    /\ wallet_unlocked \in BOOLEAN
    /\ position \in {"YES", "NO"}
    /\ amount \in Amounts
    /\ skip_sell \in BOOLEAN
    /\ proxy \in BOOLEAN
    /\ unwanted_price = 0
    /\ has_liquidity = "unset"
    /\ robust_has_liquidity = "unset"
    /\ split = [built |-> FALSE, sent |-> FALSE, receipt |-> -1]
    /\ orders = <<>>
    /\ attempt = 0
    /\ last_error = <<>>
    /\ fok_ret = NoFokRet
    /\ sell_ret = NoSellRet
    /\ res = NoRes
    /\ result = NoResult

TradeIdle ==
    /\ pc = "idle"
    /\ wallet_unlocked = FALSE
    /\ position = "YES"
    /\ amount = 0
    /\ skip_sell = FALSE
    /\ proxy = FALSE
    /\ unwanted_price = 0
    /\ has_liquidity = "unset"
    /\ robust_has_liquidity = "unset"
    /\ split = [built |-> FALSE, sent |-> FALSE, receipt |-> -1]
    /\ orders = <<>>
    /\ attempt = 0
    /\ last_error = <<>>
    /\ fok_ret = NoFokRet
    /\ sell_ret = NoSellRet
    /\ res = NoRes
    /\ result = NoResult

LiqIdle ==
    /\ lq_book = [bids |-> <<>>, asks |-> <<>>]
    /\ lq_side = "sell"
    /\ lq_amount = 0
    /\ lq_limit = 0
    /\ lq_out = "idle"

-----------------------------------------------------------------------------
(* scripts/trade.py buy_position and lib/executor.py split_and_sell *)

\* trade.py 57-61: the wallet check.
BuyPosition ==
    /\ pc = "buy_position"
    /\ IF wallet_unlocked
       THEN pc' = "get_market" /\ result' = result
       ELSE Raise("Wallet locked")
    /\ UNCHANGED <<wallet_unlocked, position, amount, skip_sell, proxy, has_liquidity,
                   robust_has_liquidity,
                   unwanted_price, split, orders, attempt, last_error, fok_ret,
                   sell_ret, res>>
    /\ UNCHANGED <<liqVars, scanVars, coversVars, covVars, arbVars, llmVars, gammaVars>>

\* executor.py 31-38: fetch the market, pick the unwanted side.
GetMarket ==
    /\ pc = "get_market"
    /\ \/ /\ Raise("get_market failed")
          /\ UNCHANGED unwanted_price
       \/ /\ \E p \in MarketPrices : unwanted_price' = p
          /\ pc' = IF skip_sell THEN "split_build" ELSE "pre_check"
          /\ result' = result
    /\ UNCHANGED <<wallet_unlocked, position, amount, skip_sell, proxy, has_liquidity,
                   robust_has_liquidity,
                   split, orders, attempt, last_error, fok_ret, sell_ret, res>>
    /\ UNCHANGED <<liqVars, scanVars, coversVars, covVars, arbVars, llmVars, gammaVars>>

\* Mutant of PreCheck: the early return on a failed pre-check is missing.
PreCheck_without_abort ==
    /\ pc = "pre_check"
    /\ \/ /\ Raise("get_order_book failed")
          /\ UNCHANGED <<res, has_liquidity>>
       \/ \E book \in TradeBooks :
            /\ has_liquidity' = IF check_liquidity(book, "sell", amount,
                                                  LIQUIDITY_FLOOR)
                                THEN "yes" ELSE "no"
            /\ pc' = "split_build" /\ res' = res /\ result' = result
    /\ UNCHANGED <<wallet_unlocked, position, amount, skip_sell, proxy,
                   robust_has_liquidity,
                   unwanted_price, split, orders, attempt, last_error, fok_ret,
                   sell_ret>>
    /\ UNCHANGED <<liqVars, scanVars, coversVars, covVars, arbVars, llmVars, gammaVars>>

\* executor.py 38-48: the liquidity pre-check on the unwanted token's bids.
PreCheck ==
    /\ pc = "pre_check"
    /\ \/ /\ Raise("get_order_book failed")
          /\ UNCHANGED <<res, has_liquidity>>
       \/ \E book \in TradeBooks :
            /\ has_liquidity' = IF check_liquidity(book, "sell", amount,
                                                  LIQUIDITY_FLOOR)
                                THEN "yes" ELSE "no"
            /\ IF has_liquidity' = "yes"
               THEN pc' = "split_build" /\ res' = res /\ result' = result
               ELSE /\ res' = [NoRes EXCEPT !.returned = TRUE,
                                            !.keys = {"success", "error"}]
                    /\ pc' = "get_market_again"
                    /\ result' = result
    /\ UNCHANGED <<wallet_unlocked, position, amount, skip_sell, proxy,
                   robust_has_liquidity,
                   unwanted_price, split, orders, attempt, last_error, fok_ret,
                   sell_ret>>
    /\ UNCHANGED <<liqVars, scanVars, coversVars, covVars, arbVars, llmVars, gammaVars>>

\* executor.py 73-96: _split_position builds the transaction.
SplitBuild ==
    /\ pc = "split_build"
    /\ \/ /\ Raise("build_transaction failed")
          /\ split' = split
       \/ /\ split' = [split EXCEPT !.built = TRUE]
          /\ pc' = "split_send"
          /\ result' = result
    /\ UNCHANGED <<wallet_unlocked, position, amount, skip_sell, proxy, has_liquidity,
                   robust_has_liquidity,
                   unwanted_price, orders, attempt, last_error, fok_ret,
                   sell_ret, res>>
    /\ UNCHANGED <<liqVars, scanVars, coversVars, covVars, arbVars, llmVars, gammaVars>>

\* executor.py 98-99: sign and send the raw transaction.
SplitSend ==
    /\ pc = "split_send"
    /\ \/ /\ Raise("send_raw_transaction failed")
          /\ split' = split
       \/ /\ split' = [split EXCEPT !.sent = TRUE]
          /\ pc' = "split_wait"
          /\ result' = result
    /\ UNCHANGED <<wallet_unlocked, position, amount, skip_sell, proxy, has_liquidity,
                   robust_has_liquidity,
                   unwanted_price, orders, attempt, last_error, fok_ret,
                   sell_ret, res>>
    /\ UNCHANGED <<liqVars, scanVars, coversVars, covVars, arbVars, llmVars, gammaVars>>

\* Mutant of SplitWait: the receipt's status is not looked at.
SplitWait_ignoring_status ==
    /\ pc = "split_wait"
    /\ \/ /\ Raise("receipt timeout")
          /\ UNCHANGED <<split, res>>
       \/ \E status \in ReceiptStatuses :
            /\ split' = [split EXCEPT !.receipt = status]
            /\ result' = result
            /\ IF skip_sell
               THEN /\ res' = SplitAndSellReturn(NoSellRet)
                    /\ pc' = "get_market_again"
               ELSE /\ res' = res
                    /\ pc' = "sell_fok"
    /\ UNCHANGED <<wallet_unlocked, position, amount, skip_sell, proxy, has_liquidity,
                   robust_has_liquidity,
                   unwanted_price, orders, attempt, last_error, fok_ret, sell_ret>>
    /\ UNCHANGED <<liqVars, scanVars, coversVars, covVars, arbVars, llmVars, gammaVars>>

\* executor.py 100-105 and 52-69: wait for the receipt; a status other than 1
\* raises ValueError; with skip_sell the request returns right after the split.
SplitWait ==
    /\ pc = "split_wait"
    /\ \/ /\ Raise("receipt timeout")
          /\ UNCHANGED <<split, res>>
       \/ \E status \in ReceiptStatuses :
            /\ split' = [split EXCEPT !.receipt = status]
            /\ IF status # 1
               THEN Raise("Split failed: 0xsplit") /\ res' = res
               ELSE /\ result' = result
                    /\ IF skip_sell
                       THEN /\ res' = SplitAndSellReturn(NoSellRet)
                            /\ pc' = "get_market_again"
                       ELSE /\ res' = res
                            /\ pc' = "sell_fok"
    /\ UNCHANGED <<wallet_unlocked, position, amount, skip_sell, proxy, has_liquidity,
                   robust_has_liquidity,
                   unwanted_price, orders, attempt, last_error, fok_ret, sell_ret>>
    /\ UNCHANGED <<liqVars, scanVars, coversVars, covVars, arbVars, llmVars, gammaVars>>

-----------------------------------------------------------------------------
(* lib/clob_client.py sell_robust and sell_fok, called at executor.py line 61 *)

\* The integer nearest to num / den, den > 0.
round_half(num, den, tie_up) ==
    LET q == num \div den
        r == num % den
    IN IF 2 * r < den THEN q
       ELSE IF 2 * r > den THEN q + 1
       ELSE IF tie_up THEN q + 1 ELSE q

\* clob_client.py 155: round(max(price * 0.90, 0.01), 2), prices in cents; tie_up
\* is the side round() takes on a half-way value.
sell_price_of(price, tie_up) ==
    round_half(IF 9 * price > 10 THEN 9 * price ELSE 10, 10, tie_up)

\* clob_client.py 230: round(max(price * 0.8, 0.02), 2).
limit_price_of(price, tie_up) ==
    round_half(IF 8 * price > 20 THEN 8 * price ELSE 20, 10, tie_up)

\* Stages of one sell_fok attempt at which an exception can be raised:
\* _refresh_http_client (retries through a proxy only), create_order, post_order.
\* Only post_order submits the order to the exchange.
FokStages(att, has_proxy) ==
    {"create_order", "post_order"}
        \cup (IF att > 0 /\ has_proxy THEN {"refresh"} ELSE {})

\* Mutant of SellFokOk: sell_robust goes on to its fallback after an order that
\* was accepted.
SellFokOk_then_fallback ==
    /\ pc = "sell_fok"
    /\ attempt < CLOB_MAX_RETRIES
    /\ \E tie_up \in BOOLEAN :
          orders' = Append(orders, [type |-> "FOK", accepted |-> TRUE,
                                    price |-> sell_price_of(unwanted_price, tie_up)])
    /\ fok_ret' = [returned |-> TRUE, order_id |-> "fok-order", filled |-> TRUE,
                   err |-> NoErr]
    /\ pc' = "re_check"
    /\ UNCHANGED <<wallet_unlocked, position, amount, skip_sell, proxy, has_liquidity,
                   robust_has_liquidity, sell_ret, res,
                   unwanted_price, split, attempt, last_error, result>>
    /\ UNCHANGED <<liqVars, scanVars, coversVars, covVars, arbVars, llmVars, gammaVars>>

\* clob_client.py 160-178, 218-220, executor.py 61-69: post_order returns; the
\* order counts as filled and the request returns through sell_robust and
\* split_and_sell.
SellFokOk ==
    /\ pc = "sell_fok"
    /\ attempt < CLOB_MAX_RETRIES
    /\ \E tie_up \in BOOLEAN :
          orders' = Append(orders, [type |-> "FOK", accepted |-> TRUE,
                                    price |-> sell_price_of(unwanted_price, tie_up)])
    /\ fok_ret' = [returned |-> TRUE, order_id |-> "fok-order", filled |-> TRUE,
                   err |-> NoErr]
    /\ sell_ret' = [returned |-> TRUE, order_id |-> fok_ret'.order_id,
                    filled |-> TRUE, err |-> "None", fok_err |-> NoErr]
    /\ res' = SplitAndSellReturn(sell_ret')
    /\ pc' = "get_market_again"
    /\ UNCHANGED <<wallet_unlocked, position, amount, skip_sell, proxy, has_liquidity,
                   robust_has_liquidity,
                   unwanted_price, split, attempt, last_error, result>>
    /\ UNCHANGED <<liqVars, scanVars, coversVars, covVars, arbVars, llmVars, gammaVars>>

\* clob_client.py 160-201: an attempt raises; the loop goes on (continue) or is
\* left (break, or the range is exhausted) and sell_fok returns the message.
SellFokFail ==
    /\ pc = "sell_fok"
    /\ attempt < CLOB_MAX_RETRIES
    /\ \E e \in Errors, stage \in FokStages(attempt, proxy), tie_up \in BOOLEAN :
        /\ orders' = IF stage = "post_order"
                     THEN Append(orders,
                                 [type |-> "FOK", accepted |-> FALSE,
                                  price |-> sell_price_of(unwanted_price, tie_up)])
                     ELSE orders
        /\ last_error' = <<e>>
        /\ IF fok_retries(e, proxy) /\ attempt + 1 < CLOB_MAX_RETRIES
           THEN /\ attempt' = attempt + 1
                /\ pc' = "sell_fok"
                /\ fok_ret' = fok_ret
           ELSE /\ attempt' = attempt
                /\ fok_ret' = [returned |-> TRUE, order_id |-> "None",
                               filled |-> FALSE, err |-> fok_error_msg(e)]
                /\ pc' = "re_check"
    /\ UNCHANGED <<wallet_unlocked, position, amount, skip_sell, proxy, has_liquidity,
                   robust_has_liquidity,
                   unwanted_price, split, sell_ret, res, result>>
    /\ UNCHANGED <<liqVars, scanVars, coversVars, covVars, arbVars, llmVars, gammaVars>>

\* Mutant of ReCheck: the resting order is placed whatever the re-check says.
ReCheck_always_places ==
    /\ pc = "re_check"
    /\ \/ /\ Raise("get_order_book failed")
          /\ UNCHANGED <<sell_ret, res, robust_has_liquidity>>
       \/ \E book \in TradeBooks :
            /\ robust_has_liquidity' = IF check_liquidity(book, "sell", amount,
                                                         LIQUIDITY_FLOOR)
                                       THEN "yes" ELSE "no"
            /\ pc' = "place_gtc" /\ UNCHANGED <<sell_ret, res, result>>
    /\ UNCHANGED <<wallet_unlocked, position, amount, skip_sell, proxy, has_liquidity,
                   unwanted_price, split, orders, attempt, last_error, fok_ret>>
    /\ UNCHANGED <<liqVars, scanVars, coversVars, covVars, arbVars, llmVars, gammaVars>>

\* clob_client.py 228-233: the liquidity re-check at floor 0.05 for the full
\* amount.  get_order_book is called outside any try block of sell_robust and
\* of split_and_sell, so its exception reaches buy_position's except clause.
ReCheck ==
    /\ pc = "re_check"
    /\ \/ /\ Raise("get_order_book failed")
          /\ UNCHANGED <<sell_ret, res, robust_has_liquidity>>
       \/ \E book \in TradeBooks :
            /\ robust_has_liquidity' = IF check_liquidity(book, "sell", amount,
                                                         LIQUIDITY_FLOOR)
                                       THEN "yes" ELSE "no"
            /\ IF robust_has_liquidity' = "yes"
               THEN pc' = "place_gtc" /\ UNCHANGED <<sell_ret, res, result>>
               ELSE /\ sell_ret' = [returned |-> TRUE, order_id |-> "None",
                                    filled |-> FALSE,
                                    err |-> "Insufficient liquidity",
                                    fok_err |-> fok_ret.err]
                    /\ res' = SplitAndSellReturn(sell_ret')
                    /\ pc' = "get_market_again"
                    /\ result' = result
    /\ UNCHANGED <<wallet_unlocked, position, amount, skip_sell, proxy, has_liquidity,
                   unwanted_price, split, orders, attempt, last_error, fok_ret>>
    /\ UNCHANGED <<liqVars, scanVars, coversVars, covVars, arbVars, llmVars, gammaVars>>

\* clob_client.py 237-251: the good-till-cancelled order, placed once.
PlaceGtc ==
    /\ pc = "place_gtc"
    /\ \/ /\ \E tie_up \in BOOLEAN :
                orders' = Append(orders,
                                 [type |-> "GTC", accepted |-> TRUE,
                                  price |-> limit_price_of(unwanted_price, tie_up)])
          /\ sell_ret' = [returned |-> TRUE, order_id |-> "gtc-order",
                          filled |-> TRUE, err |-> "Placed Aggressive GTC Limit",
                          fok_err |-> NoErr]
       \/ \E stage \in {"create_order", "post_order"}, tie_up \in BOOLEAN :
          /\ orders' = IF stage = "post_order"
                       THEN Append(orders,
                                   [type |-> "GTC", accepted |-> FALSE,
                                    price |-> limit_price_of(unwanted_price, tie_up)])
                       ELSE orders
          /\ sell_ret' = [returned |-> TRUE, order_id |-> "None", filled |-> FALSE,
                          err |-> "GTC Limit failed", fok_err |-> NoErr]
    /\ res' = SplitAndSellReturn(sell_ret')
    /\ pc' = "get_market_again"
    /\ UNCHANGED <<wallet_unlocked, position, amount, skip_sell, proxy, has_liquidity,
                   robust_has_liquidity,
                   unwanted_price, split, attempt, last_error, fok_ret, result>>
    /\ UNCHANGED <<liqVars, scanVars, coversVars, covVars, arbVars, llmVars, gammaVars>>

\* trade.py 65-81: buy_position fetches the market again and builds the
\* TradeResult from the returned dict; a missing key raises KeyError.
GetMarketAgain ==
    /\ pc = "get_market_again"
    /\ \/ Raise("get_market failed")
       \/ IF "split_tx" \notin res.keys
          THEN Raise("KeyError: split_tx")
          ELSE /\ result' = [returned |-> TRUE, success |-> res.success,
                             split_tx |-> res.split_tx,
                             clob_order_id |-> res.clob_order_id,
                             clob_filled |-> (res.clob_order_id # "None"),
                             error |-> res.clob_error]
               /\ pc' = "done"
    /\ UNCHANGED <<wallet_unlocked, position, amount, skip_sell, proxy, has_liquidity,
                   robust_has_liquidity,
                   unwanted_price, split, orders, attempt, last_error, fok_ret,
                   sell_ret, res>>
    /\ UNCHANGED <<liqVars, scanVars, coversVars, covVars, arbVars, llmVars, gammaVars>>

Next ==
    \/ BuyPosition
    \/ GetMarket
    \/ PreCheck
    \/ SplitBuild
    \/ SplitSend
    \/ SplitWait
    \/ SellFokOk
    \/ SellFokFail
    \/ ReCheck
    \/ PlaceGtc
    \/ GetMarketAgain

\* args before cmd_scan has read them.
NoArgs == [min_coverage |-> 0, tier |-> 0]

ScanIdle ==
    /\ sc_pc = "idle"
    /\ sc_markets = <<>>
    /\ sc_i = 0
    /\ sc_reply = [kind |-> "none"]
    /\ sc_parsed = [type |-> "null"]
    /\ sc_ret = <<>>
    /\ sc_called = 0
    /\ sc_portfolios = <<>>
    /\ sc_args = NoArgs
    /\ sc_printed = <<>>

CoversIdle ==
    /\ dc_pc = "idle"
    /\ dc_markets = <<>>
    /\ dc_target = [id |-> <<>>, question |-> <<>>, yes_price |-> 0, no_price |-> 0,
                    closed |-> FALSE, resolved |-> FALSE]
    /\ dc_llm = [type |-> "object"]
    /\ dc_ref = [type |-> "object"]
    /\ dc_covers = [exc |-> FALSE, val |-> <<>>]
    /\ dc_matched = [exc |-> FALSE, found |-> FALSE,
                     market |-> [id |-> <<>>, question |-> <<>>, yes_price |-> 0,
                                 no_price |-> 0, closed |-> FALSE, resolved |-> FALSE]]

CoverageIdle ==
    /\ cv_pc = "idle"
    /\ cv_in = [none |-> TRUE]
    /\ cv_out = [none |-> TRUE]

ArbitrageIdle ==
    /\ ab_pc = "idle"
    /\ ab_in = [none |-> TRUE]
    /\ ab_portfolio = [none |-> TRUE]
    /\ ab_steps = [exc |-> FALSE, val |-> <<>>]

LlmIdle ==
    /\ ll_pc = "idle"
    /\ ll_in = [max_tokens |-> 0]
    /\ ll_payload = {}
    /\ ll_attempt = 0
    /\ ll_requests = <<>>
    /\ ll_sleeps = <<>>
    /\ ll_out = [kind |-> "none"]

GammaIdle ==
    /\ gm_pc = "idle"
    /\ gm_in = [fn |-> "idle"]
    /\ gm_out = [exc |-> FALSE]

Init == TradeInit /\ LiqIdle /\ ScanIdle /\ CoversIdle /\ CoverageIdle /\ ArbitrageIdle /\ LlmIdle /\ GammaIdle

Spec == Init /\ [][Next]_vars

-----------------------------------------------------------------------------
(* Claims about the trade request, checked under Spec *)

FokOrders == SelectSeq(orders, LAMBDA o : o.type = "FOK")
GtcOrders == SelectSeq(orders, LAMBDA o : o.type = "GTC")
FokFilled == \E i \in 1..Len(orders) : orders[i].type = "FOK" /\ orders[i].accepted
SplitReported(r) == r.returned /\ r.success /\ r.split_tx = "0xsplit"

\* C1: once the split's receipt reported status 1, a request that went on to the
\* sell step ends with split_and_sell's return value and the TradeResult both
\* reporting success and the split transaction hash, whatever the sell step did
\* (runs in which only the later market fetch of buy_position failed are left out:
\* the claim is about the outcomes of the sell step).
C1_SplitAlwaysReported ==
    (pc = "done" /\ split.receipt = 1 /\ ~skip_sell /\ result.error # "get_market failed")
        => (SplitReported(res) /\ SplitReported(result))

\* C2: with skip_sell false, once the pre-check returned false no split
\* transaction is built or sent, no order is submitted, and the request ends with
\* success = false.
C2_NoLiquidityNoSplit ==
    (~skip_sell /\ has_liquidity = "no")
        => /\ ~split.built /\ ~split.sent /\ split.receipt = -1
           /\ orders = <<>>
           /\ res.returned /\ ~res.success
           /\ pc \in {"get_market_again", "done"}
           /\ (pc = "done" => (result.returned /\ ~result.success))

C2_Witness ==
    pc = "done" /\ ~skip_sell /\ has_liquidity = "no" /\ result.returned

\* C3: an order is submitted only after the split's receipt reported status 1;
\* a receipt with another status fails the request and no order is ever submitted.
C3_SellOnlyAfterSplit ==
    /\ (orders # <<>> \/ pc \in {"sell_fok", "re_check", "place_gtc"})
          => split.receipt = 1
    /\ split.receipt \notin {-1, 1}
          => (orders = <<>> /\ pc = "done" /\ result.returned /\ ~result.success
              /\ ~res.returned)

C3_WitnessSold == pc = "done" /\ orders # <<>> /\ split.receipt = 1

C3_WitnessFailed == pc = "done" /\ split.receipt = 0 /\ ~skip_sell /\ split.sent

\* C4: sell_robust attempts Fill-or-Kill first; it re-checks liquidity only when
\* that did not fill; a failed re-check returns not-filled with an error and
\* places no resting order; a resting order is placed only after a passed
\* re-check, as the last order of the request.
C4_ThreeTierOrder ==
    /\ (pc = "re_check" \/ robust_has_liquidity # "unset")
          => (last_error # <<>> /\ fok_ret.returned /\ ~fok_ret.filled /\ ~FokFilled)
    /\ robust_has_liquidity = "no"
          => (sell_ret.returned /\ ~sell_ret.filled /\ sell_ret.order_id = "None"
              /\ sell_ret.err = "Insufficient liquidity" /\ GtcOrders = <<>>
              /\ pc \in {"get_market_again", "done"})
    /\ (pc = "place_gtc" \/ GtcOrders # <<>>)
          => (robust_has_liquidity = "yes" /\ fok_ret.returned /\ ~fok_ret.filled)
    /\ GtcOrders # <<>>
          => (Len(GtcOrders) = 1 /\ orders[Len(orders)].type = "GTC")

C4_WitnessNoLiquidity ==
    pc = "done" /\ robust_has_liquidity = "no" /\ result.returned /\ result.success

C4_WitnessGtc ==
    pc = "done" /\ GtcOrders # <<>> /\ Len(FokOrders) > 0

\* C5: in sell_fok another attempt follows a failed one only when the failure was
\* a network block and a proxy is configured; otherwise the loop ends after that
\* attempt; never more than CLOB_MAX_RETRIES Fill-or-Kill orders are submitted.
C5_FokRetryPolicy ==
    /\ Len(FokOrders) <= CLOB_MAX_RETRIES
    /\ attempt < CLOB_MAX_RETRIES
    /\ (pc = "sell_fok" /\ last_error # <<>>)
          => (is_cloudflare_block(last_error[1]) /\ proxy)
    /\ (attempt > 0 \/ Len(FokOrders) > 1) => proxy

C5_WitnessExhausted ==
    Len(FokOrders) = CLOB_MAX_RETRIES /\ fok_ret.returned /\ ~fok_ret.filled

C5_WitnessNoProxy ==
    /\ ~proxy /\ fok_ret.returned /\ ~fok_ret.filled
    /\ is_cloudflare_block(last_error[1]) /\ Len(FokOrders) = 1

\* C6: the filled flag sell_robust returns, and clob_filled of the TradeResult,
\* are true only when the Fill-or-Kill order filled.
C6_FilledOnlyWhenFokFilled ==
    /\ (sell_ret.returned /\ sell_ret.filled) => FokFilled
    /\ (result.returned /\ result.clob_filled) => FokFilled

\* C7: when sell_fok gives up, its message is the blocked message exactly when
\* the last error was a network block, and the no-liquidity or the raw message
\* otherwise.
C7_BlockedMessage ==
    (fok_ret.returned /\ ~fok_ret.filled)
        => /\ last_error # <<>>
           /\ is_cloudflare_block(last_error[1])
                 <=> fok_ret.err.kind = "IP blocked by Cloudflare"
           /\ ~is_cloudflare_block(last_error[1])
                 => (/\ fok_ret.err.kind \in {"No liquidity", "last_error"}
                     /\ fok_ret.err.kind = "last_error" => fok_ret.err.raw = last_error[1])

C7_WitnessExhausted ==
    /\ fok_ret.returned /\ ~fok_ret.filled /\ attempt = CLOB_MAX_RETRIES - 1
    /\ fok_ret.err.kind = "IP blocked by Cloudflare" /\ proxy

C7_WitnessOther ==
    /\ fok_ret.returned /\ ~fok_ret.filled /\ attempt > 0
    /\ fok_ret.err.kind = "last_error"

-----------------------------------------------------------------------------
(* check_liquidity on its own: every book, side, amount and limit of the input
   sets, then one call. *)

Sides == {"sell", "buy", "SELL"}
LiqAmounts == Amounts \cup {0}

LiqInit ==
    /\ lq_book \in Books
    /\ lq_side \in Sides
    /\ lq_amount \in LiqAmounts
    /\ lq_limit \in Limits
    /\ lq_out = "unset"

\* clob_client.py 88-131, the order book being the one get_order_book returned.
CheckLiquidity ==
    /\ lq_out = "unset"
    /\ lq_out' = IF check_liquidity(lq_book, lq_side, lq_amount, lq_limit)
                 THEN "true" ELSE "false"
    /\ UNCHANGED <<lq_book, lq_side, lq_amount, lq_limit>>
    /\ UNCHANGED <<tradeVars, scanVars, coversVars, covVars, arbVars, llmVars, gammaVars>>

InitLiquidity == TradeIdle /\ LiqInit /\ ScanIdle /\ CoversIdle /\ CoverageIdle /\ ArbitrageIdle /\ LlmIdle /\ GammaIdle

NextLiquidity == CheckLiquidity

SpecLiquidity == InitLiquidity /\ [][NextLiquidity]_vars

\* The acceptance condition of the claim and the size of the longest leading run
\* of entries that satisfy it.
Acceptable(side, price, limit) ==
    IF side \in {"sell", "SELL"} THEN price >= limit ELSE price <= limit

RECURSIVE LeadingRunSize(_, _, _)
LeadingRunSize(entries, side, limit) ==
    IF entries = <<>> \/ ~Acceptable(side, Head(entries)[1], limit) THEN 0
    ELSE Head(entries)[2] + LeadingRunSize(Tail(entries), side, limit)

RelevantSide(book, side) == IF side \in {"sell", "SELL"} THEN book.bids ELSE book.asks

ScenarioD ==
    /\ lq_book.asks = << <<50, 10>>, <<55, 20>> >>
    /\ lq_side = "buy" /\ lq_limit = 52 /\ lq_amount = 15

\* C8: for amount > 0 check_liquidity is true iff the sizes of the longest
\* leading run of acceptable entries of the relevant side sum to at least the
\* amount; asks [(0.50,10),(0.55,20)], buy limit 0.52, amount 15 gives false.
C8_LeadingRun ==
    (lq_out # "unset" /\ lq_amount > 0)
        => /\ lq_out = "true"
                <=> LeadingRunSize(RelevantSide(lq_book, lq_side), lq_side, lq_limit)
                        >= lq_amount
           /\ ScenarioD => lq_out = "false"

C8_Witness == ScenarioD /\ lq_out = "false"

-----------------------------------------------------------------------------
(* scripts/hedge.py: the oracle's reply as text.

   A reply is a sequence of tokens, each a record with a field t:
     "fence"   the three backquotes
     "tag"     the word json right after a fence
     "ws"      white space (a newline)
     "prose"   words, with no brace and no backquote
     "lbrace", "rbrace"   the braces of the top-level object
     "members" the text between those braces, field v its JSON content
     "value"   a complete JSON text that holds no brace (a list of scalars, a
               number, a string, null), field v its JSON value
   JSON values are records with a field type; an object has its keys as
   further fields.  Python's None is the value of type "null". *)

Tok(t) == [t |-> t]
TokV(t, v) == [t |-> t, v |-> v]

JNull == [type |-> "null"]
JNum(n) == [type |-> "number", n |-> n]
JStr(str) == [type |-> "string", s |-> str]
JList(items) == [type |-> "list", items |-> items]
JEmptyObject == [type |-> "object"]

\* str.strip() on a token sequence.
RECURSIVE lstrip(_)
lstrip(text) ==
    IF text # <<>> /\ Head(text).t = "ws" THEN lstrip(Tail(text)) ELSE text

RECURSIVE rstrip(_)
rstrip(text) ==
    IF text # <<>> /\ text[Len(text)].t = "ws"
    THEN rstrip(SubSeq(text, 1, Len(text) - 1))
    ELSE text

strip(text) == rstrip(lstrip(text))

\* Positions where the text has the three backquotes, and where it has them
\* followed at once by json.
FencePositions(text) == {i \in 1..Len(text) : text[i].t = "fence"}
JsonFencePositions(text) ==
    {i \in 1..(Len(text) - 1) : text[i].t = "fence" /\ text[i + 1].t = "tag"}

Min(S) == CHOOSE x \in S : \A y \in S : x <= y
Max(S) == CHOOSE x \in S : \A y \in S : x >= y

\* text.split("```json")[1]: what lies between the first and the second
\* occurrence of the separator (or the end of the text).
split_json_fence_1(text) ==
    LET first == Min(JsonFencePositions(text))
        later == {i \in JsonFencePositions(text) : i > first + 1}
        stop == IF later = {} THEN Len(text) ELSE Min(later) - 1
    IN SubSeq(text, first + 2, stop)

\* text.split("```")[0]: what lies before the first fence.
split_fence_0(text) == SubSeq(text, 1, Min(FencePositions(text)) - 1)

\* json.loads: white space between JSON tokens is skipped; the text must be one
\* JSON value and nothing else.  ok = FALSE is json.JSONDecodeError.
json_loads(text) ==
    LET toks == SelectSeq(text, LAMBDA k : k.t # "ws")
    IN IF Len(toks) = 3 /\ toks[1].t = "lbrace" /\ toks[2].t = "members"
           /\ toks[3].t = "rbrace"
       THEN [ok |-> TRUE, val |-> toks[2].v]
       ELSE IF Len(toks) = 2 /\ toks[1].t = "lbrace" /\ toks[2].t = "rbrace"
       THEN [ok |-> TRUE, val |-> JEmptyObject]
       ELSE IF Len(toks) = 1 /\ toks[1].t = "value"
       THEN [ok |-> TRUE, val |-> toks[1].v]
       ELSE [ok |-> FALSE, val |-> JNull]

\* re.search(r"\{[\s\S]*\}", text): from the first opening brace to the last
\* closing brace after it (the star is greedy).
regex_object(text) ==
    LET opens == {i \in 1..Len(text) : text[i].t = "lbrace"}
        closes == {i \in 1..Len(text) : text[i].t = "rbrace"}
    IN IF opens = {} \/ closes = {} \/ Max(closes) < Min(opens)
       THEN [found |-> FALSE, group |-> <<>>]
       ELSE [found |-> TRUE, group |-> SubSeq(text, Min(opens), Max(closes))]

\* hedge.py 125-157.
extract_json_from_response(text) ==
    LET t1 == strip(text)
        t2 == IF JsonFencePositions(t1) # {} THEN split_json_fence_1(t1) ELSE t1
        t3 == IF FencePositions(t2) # {} THEN split_fence_0(t2) ELSE t2
        t4 == strip(t3)
        direct == json_loads(t4)
        match == regex_object(t4)
        inner == json_loads(match.group)
    IN IF direct.ok THEN direct.val
       ELSE IF match.found /\ inner.ok THEN inner.val
       ELSE JNull

-----------------------------------------------------------------------------
(* scripts/hedge.py: matching and cover derivation.  Strings (ids, questions)
   are sequences of one-character strings. *)

\* NECESSARY_PROBABILITY, 0.98, in hundredths.
NECESSARY_PROBABILITY == 98

lower_char(c) ==
    CASE c = "A" -> "a"
      [] c = "B" -> "b"
      [] c = "C" -> "c"
      [] OTHER -> c

\* str.lower()
lower(str) == [i \in 1..Len(str) |-> lower_char(str[i])]

RECURSIVE str_lstrip(_)
str_lstrip(str) ==
    IF str # <<>> /\ Head(str) = " " THEN str_lstrip(Tail(str)) ELSE str

RECURSIVE str_rstrip(_)
str_rstrip(str) ==
    IF str # <<>> /\ str[Len(str)] = " "
    THEN str_rstrip(SubSeq(str, 1, Len(str) - 1))
    ELSE str

\* str.strip()
str_strip(str) == str_rstrip(str_lstrip(str))

\* sub in str
contains(sub, str) ==
    \E i \in 0..(Len(str) - Len(sub)) : SubSeq(str, i + 1, i + Len(sub)) = sub

\* A Python dict: a sequence of <<key, value>> in insertion order, keys unique;
\* assigning to a key that is present keeps its place and replaces its value.
dict_has(d, k) == \E i \in 1..Len(d) : d[i][1] = k
dict_get(d, k) == d[CHOOSE i \in 1..Len(d) : d[i][1] = k][2]
dict_put(d, k, v) ==
    IF dict_has(d, k)
    THEN [i \in 1..Len(d) |-> IF d[i][1] = k THEN <<k, v>> ELSE d[i]]
    ELSE Append(d, <<k, v>>)

\* {m.id: m for m in other_markets}, hedge.py 202
RECURSIVE markets_by_id_of(_, _)
markets_by_id_of(markets, d) ==
    IF markets = <<>> THEN d
    ELSE markets_by_id_of(Tail(markets), dict_put(d, Head(markets).id, Head(markets)))

\* {m.question.lower().strip(): m for m in other_markets}, hedge.py 203
RECURSIVE markets_by_question_of(_, _)
markets_by_question_of(markets, d) ==
    IF markets = <<>> THEN d
    ELSE markets_by_question_of(Tail(markets),
             dict_put(d, str_strip(lower(Head(markets).question)), Head(markets)))

NoMarket == [id |-> <<>>, question |-> <<>>, yes_price |-> 0, no_price |-> 0,
             closed |-> FALSE, resolved |-> FALSE]

\* dict.get(key, default) on a JSON object.
json_get(obj, key, default) == IF key \in DOMAIN obj THEN obj[key] ELSE default

\* bool(value)
truthy(v) ==
    CASE v.type = "null" -> FALSE
      [] v.type = "number" -> v.n # 0
      [] v.type = "string" -> v.s # <<>>
      [] v.type = "list" -> v.items # <<>>
      [] v.type = "object" -> DOMAIN v # {"type"}

\* The fuzzy loop of match_market_to_list, hedge.py 182-184.
RECURSIVE fuzzy_match(_, _)
fuzzy_match(question_lower, items) ==
    IF items = <<>> THEN [found |-> FALSE, market |-> NoMarket]
    ELSE LET q == Head(items)[1]
         IN IF contains(question_lower, q) \/ contains(q, question_lower)
            THEN [found |-> TRUE, market |-> Head(items)[2]]
            ELSE fuzzy_match(question_lower, Tail(items))

\* hedge.py 165-186.  market_id and market_question are JSON values as the
\* oracle gave them.  exc: an unhashable market_id (TypeError) or a
\* market_question with no lower() (AttributeError).
match_market_to_list(market_id, market_question, markets_by_id, markets_by_question) ==
    IF market_id.type \in {"list", "object"}
    THEN [exc |-> TRUE, found |-> FALSE, market |-> NoMarket]
    ELSE IF market_id.type = "string" /\ dict_has(markets_by_id, market_id.s)
    THEN [exc |-> FALSE, found |-> TRUE, market |-> dict_get(markets_by_id, market_id.s)]
    ELSE IF market_question.type # "string"
    THEN [exc |-> TRUE, found |-> FALSE, market |-> NoMarket]
    ELSE LET question_lower == str_strip(lower(market_question.s))
         IN IF dict_has(markets_by_question, question_lower)
            THEN [exc |-> FALSE, found |-> TRUE,
                  market |-> dict_get(markets_by_question, question_lower)]
            ELSE LET fuzzy == fuzzy_match(question_lower, markets_by_question)
                 IN [exc |-> FALSE, found |-> fuzzy.found, market |-> fuzzy.market]

\* The items a for loop over a JSON value visits.  A number or null is not
\* iterable (TypeError); a string yields its characters and an object its keys,
\* every one of them a str.
iterate(v) ==
    CASE v.type = "list" -> [exc |-> FALSE, items |-> v.items]
      [] v.type = "string" -> [exc |-> FALSE,
                               items |-> [i \in 1..Len(v.s) |-> JStr(<<v.s[i]>>)]]
      [] v.type = "object" -> [exc |-> FALSE,
                               items |-> IF DOMAIN v = {"type"} THEN <<>>
                                         ELSE <<JStr(<<"k">>)>>]
      [] OTHER -> [exc |-> TRUE, items |-> <<>>]

\* One of the two for loops of derive_covers_from_implications (hedge.py
\* 210-226 and 230-246), covers being the list built so far.
RECURSIVE covers_loop(_, _, _, _, _, _, _)
covers_loop(items, target_position, cover_position, target_market, markets_by_id, markets_by_question, covers) ==
    IF items = <<>> THEN [exc |-> FALSE, val |-> covers]
    ELSE LET item == Head(items)
         IN IF item.type # "object" THEN [exc |-> TRUE, val |-> <<>>]
            ELSE LET other_id == json_get(item, "market_id", JStr(<<>>))
                     other_question == json_get(item, "market_question", JStr(<<>>))
                     matched == match_market_to_list(other_id, other_question,
                                    markets_by_id, markets_by_question)
                 IN IF matched.exc THEN [exc |-> TRUE, val |-> <<>>]
                    ELSE covers_loop(Tail(items), target_position, cover_position,
                             target_market, markets_by_id, markets_by_question,
                             IF ~matched.found \/ matched.market.id = target_market.id
                             THEN covers
                             ELSE Append(covers,
                                    [target_position |-> target_position,
                                     cover_market |-> matched.market,
                                     cover_position |-> cover_position,
                                     probability |-> NECESSARY_PROBABILITY]))

\* Mutant of derive_covers_from_implications: a match that is the target market
\* is kept.
derive_covers_keeping_target(llm_result, target_market, other_markets) ==
    IF llm_result.type # "object" THEN [exc |-> TRUE, val |-> <<>>]
    ELSE LET markets_by_id == markets_by_id_of(other_markets, <<>>)
             markets_by_question == markets_by_question_of(other_markets, <<>>)
             implied_by == iterate(json_get(llm_result, "implied_by", JList(<<>>)))
             first == covers_loop(implied_by.items, "YES", "NO", NoMarket,
                                  markets_by_id, markets_by_question, <<>>)
             implies == iterate(json_get(llm_result, "implies", JList(<<>>)))
             second == covers_loop(implies.items, "NO", "YES", NoMarket,
                                   markets_by_id, markets_by_question, first.val)
         IN IF implied_by.exc \/ first.exc \/ implies.exc \/ second.exc
            THEN [exc |-> TRUE, val |-> <<>>]
            ELSE second

\* Mutant of derive_covers_from_implications: implies entries give the
\* positions of implied_by entries.
derive_covers_same_positions(llm_result, target_market, other_markets) ==
    IF llm_result.type # "object" THEN [exc |-> TRUE, val |-> <<>>]
    ELSE LET markets_by_id == markets_by_id_of(other_markets, <<>>)
             markets_by_question == markets_by_question_of(other_markets, <<>>)
             implied_by == iterate(json_get(llm_result, "implied_by", JList(<<>>)))
             first == covers_loop(implied_by.items, "YES", "NO", target_market,
                                  markets_by_id, markets_by_question, <<>>)
             implies == iterate(json_get(llm_result, "implies", JList(<<>>)))
             second == covers_loop(implies.items, "YES", "NO", target_market,
                                   markets_by_id, markets_by_question, first.val)
         IN IF implied_by.exc \/ first.exc \/ implies.exc \/ second.exc
            THEN [exc |-> TRUE, val |-> <<>>]
            ELSE second

\* hedge.py 189-248.  exc: llm_result is not a dict, or a loop raised.
derive_covers_from_implications(llm_result, target_market, other_markets) ==
    IF llm_result.type # "object" THEN [exc |-> TRUE, val |-> <<>>]
    ELSE LET markets_by_id == markets_by_id_of(other_markets, <<>>)
             markets_by_question == markets_by_question_of(other_markets, <<>>)
             implied_by == iterate(json_get(llm_result, "implied_by", JList(<<>>)))
             first == covers_loop(implied_by.items, "YES", "NO", target_market,
                                  markets_by_id, markets_by_question, <<>>)
             implies == iterate(json_get(llm_result, "implies", JList(<<>>)))
             second == covers_loop(implies.items, "NO", "YES", target_market,
                                   markets_by_id, markets_by_question, first.val)
         IN IF implied_by.exc \/ first.exc \/ implies.exc \/ second.exc
            THEN [exc |-> TRUE, val |-> <<>>]
            ELSE second

\* Mutant of extract_implications_for_market: no except clause around the
\* oracle call, the parsing and the derivation.
extract_implications_without_except(target_market, other_markets, reply) ==
    IF reply.kind \in {"error", "none"} THEN [exc |-> TRUE, val |-> <<>>]
    ELSE LET llm_result == extract_json_from_response(reply.text)
         IN IF ~truthy(llm_result) THEN [exc |-> FALSE, val |-> <<>>]
            ELSE derive_covers_from_implications(llm_result, target_market,
                                                 other_markets)

\* hedge.py 251-283.  reply is what llm.complete did: kind "error" it raised,
\* "none" it returned None as the content, "text" it returned reply.text.
\* Whatever is raised inside the try block is caught and [] returned.
extract_implications_for_market(target_market, other_markets, reply) ==
    IF reply.kind = "error" THEN [exc |-> FALSE, val |-> <<>>]
    ELSE IF reply.kind = "none" THEN [exc |-> FALSE, val |-> <<>>]
    ELSE LET llm_result == extract_json_from_response(reply.text)
         IN IF ~truthy(llm_result) THEN [exc |-> FALSE, val |-> <<>>]
            ELSE LET derived == derive_covers_from_implications(llm_result,
                                    target_market, other_markets)
                 IN IF derived.exc THEN [exc |-> FALSE, val |-> <<>>]
                    ELSE derived

-----------------------------------------------------------------------------
(* lib/coverage.py.  Prices, costs and coverages are integers in units of
   0.00001, so that a value with five decimals is exact; a cover probability
   is in hundredths, as NECESSARY_PROBABILITY; the products of
   calculate_coverage_metrics are kept in units of 0.0000001.  The arithmetic
   is exact but for round(), whose result on a value half-way
   between two neighbours depends on the side the binary float falls on: the
   side is an argument, tie_up. *)

\* 1.0
One == 1000 * 100

\* MIN_COVERAGE, 0.85
MIN_COVERAGE == 85000

\* TIER_THRESHOLDS: (coverage_threshold, tier_number, label)
TIER_THRESHOLDS ==
    << <<95000, 1, "HIGH">>, <<90000, 2, "GOOD">>, <<85000, 3, "MODERATE">>,
       <<0, 4, "LOW">> >>

\* The side round() takes on a half-way value: of the coverage, of the loss
\* probability, of the other rounded fields.
Ties == [coverage : BOOLEAN, loss : BOOLEAN, other : BOOLEAN]

\* round(x, 4) of a value x in units of 0.00001
round4(x, tie_up) == 10 * round_half(x, 10, tie_up)

\* round(x, 4) of a value x in units of 0.0000001
round4_of_product(x, tie_up) == 10 * round_half(x, 1000, tie_up)

\* coverage.py 67, in units of 0.0000001
coverage_of(target_price, cover_probability) ==
    target_price * 100 + (One - target_price) * cover_probability

\* coverage.py 70, in units of 0.0000001
loss_probability_of(target_price, cover_probability) ==
    (One - target_price) * (100 - cover_probability)

\* coverage.py 47-79
calculate_coverage_metrics(target_price, cover_probability, total_cost, ties) ==
    LET coverage == coverage_of(target_price, cover_probability)
        loss_probability == loss_probability_of(target_price, cover_probability)
        expected_profit == coverage - total_cost * 100
    IN [coverage |-> round4_of_product(coverage, ties.coverage),
        loss_probability |-> round4_of_product(loss_probability, ties.loss),
        expected_profit |-> round4_of_product(expected_profit, ties.other)]

\* The for loop of classify_tier, coverage.py 93-96.
RECURSIVE tier_of_coverage(_, _)
tier_of_coverage(coverage, thresholds) ==
    IF thresholds = <<>> THEN <<4, "LOW">>
    ELSE IF coverage >= Head(thresholds)[1]
         THEN <<Head(thresholds)[2], Head(thresholds)[3]>>
         ELSE tier_of_coverage(coverage, Tail(thresholds))

\* Mutant of classify_tier: the cost is not looked at.
classify_tier_ignoring_cost(coverage, total_cost) ==
    tier_of_coverage(coverage, TIER_THRESHOLDS)

\* coverage.py 82-96
classify_tier(coverage, total_cost) ==
    IF total_cost >= One THEN <<4, "LOW">>
    ELSE tier_of_coverage(coverage, TIER_THRESHOLDS)

\* Mutant of sanity_rejects: nothing is discarded.
sanity_rejects_nothing(target_price, cover_price, cover_probability) == FALSE

\* coverage.py 171-181: cover_probability >= 0.95 and
\* cover_price / (1.0 - target_price) < 0.5, the quotient being 1.0 unless
\* target_price < 1.0.
sanity_rejects(target_price, cover_price, cover_probability) ==
    /\ cover_probability >= 95
    /\ target_price < One
    /\ 2 * cover_price < One - target_price

\* coverage.py 135-143: dict.get of the price of the position, the key being
\* present.
price_of(market, held) ==
    IF held = "YES" THEN market.yes_price ELSE market.no_price

NoPortfolio == [none |-> TRUE]

\* coverage.py 112-217.  The question, slug and relationship texts of the record
\* are left out.
build_portfolio(target_market, cover_market, target_position, cover_position, cover_probability, ties) ==
    LET target_price == price_of(target_market, target_position)
        cover_price == price_of(cover_market, cover_position)
        total_cost == target_price + cover_price
    IN IF total_cost <= 0 \/ total_cost > 2 * One THEN NoPortfolio
       ELSE IF sanity_rejects(target_price, cover_price, cover_probability)
       THEN NoPortfolio
       ELSE LET metrics == calculate_coverage_metrics(target_price, cover_probability,
                                                      total_cost, ties)
            IN IF metrics.coverage < MIN_COVERAGE THEN NoPortfolio
               ELSE LET tier == classify_tier(metrics.coverage, total_cost)
                    IN [none |-> FALSE,
                        target_id |-> target_market.id,
                        target_position |-> target_position,
                        target_price |-> round4(target_price, ties.other),
                        cover_id |-> cover_market.id,
                        cover_position |-> cover_position,
                        cover_price |-> round4(cover_price, ties.other),
                        cover_probability |-> cover_probability,
                        total_cost |-> round4(total_cost, ties.other),
                        profit |-> round4(One - total_cost, ties.other),
                        \* in units of 0.01
                        profit_pct |-> round_half((One - total_cost) * 10000,
                                                  total_cost, ties.other),
                        coverage |-> metrics.coverage,
                        loss_probability |-> metrics.loss_probability,
                        expected_profit |-> metrics.expected_profit,
                        tier |-> tier[1],
                        tier_label |-> tier[2]]

\* coverage.py 220-234.
filter_portfolios_by_tier(portfolios, max_tier) ==
    SelectSeq(portfolios, LAMBDA p : p.tier <= max_tier)

\* coverage.py 237-251.
filter_portfolios_by_coverage(portfolios, min_coverage) ==
    SelectSeq(portfolios, LAMBDA p : p.coverage >= min_coverage)

\* coverage.py 256: the key of a portfolio is the tuple (tier, -coverage);
\* tuples compare by their first component, then by their second.
key_less(p, q) ==
    \/ p.tier < q.tier
    \/ p.tier = q.tier /\ (0 - p.coverage) < (0 - q.coverage)

\* sorted() is stable: an element is put behind every element already placed
\* whose key is not greater than its own.
RECURSIVE insert_by_key(_, _)
insert_by_key(placed, p) ==
    IF placed = <<>> THEN <<p>>
    ELSE IF key_less(p, Head(placed)) THEN <<p>> \o placed
    ELSE <<Head(placed)>> \o insert_by_key(Tail(placed), p)

\* Mutant of sort_portfolios: an element is put behind the later elements of
\* equal key.
RECURSIVE sort_portfolios_ties_reversed(_)
sort_portfolios_ties_reversed(portfolios) ==
    IF portfolios = <<>> THEN <<>>
    ELSE insert_by_key(sort_portfolios_ties_reversed(Tail(portfolios)),
                       Head(portfolios))

\* coverage.py 254-256.
RECURSIVE sort_portfolios(_)
sort_portfolios(portfolios) ==
    IF portfolios = <<>> THEN <<>>
    ELSE insert_by_key(sort_portfolios(SubSeq(portfolios, 1, Len(portfolios) - 1)),
                       portfolios[Len(portfolios)])

\* hedge.py 291-299.  The prices of a Market are in cents, those of
\* lib/coverage.py in units of 0.00001.
market_to_dict(market) ==
    [id |-> market.id, yes_price |-> market.yes_price * 1000,
     no_price |-> market.no_price * 1000]

\* hedge.py 302-326.  A cover's probability is in hundredths.
RECURSIVE build_portfolios_from_covers(_, _, _)
build_portfolios_from_covers(target_market, covers, ties) ==
    IF covers = <<>> THEN <<>>
    ELSE LET cover == Head(covers)
             portfolio == build_portfolio(market_to_dict(target_market),
                                          market_to_dict(cover.cover_market),
                                          cover.target_position, cover.cover_position,
                                          cover.probability, ties)
             rest == build_portfolios_from_covers(target_market, Tail(covers), ties)
         IN IF portfolio.none THEN rest ELSE <<portfolio>> \o rest

-----------------------------------------------------------------------------
(* scripts/hedge.py cmd_scan: the markets fetched and the oracle's answers *)

Market(id, question, yes_price, no_price, closed, resolved) ==
    [id |-> id, question |-> question, yes_price |-> yes_price,
     no_price |-> no_price, closed |-> closed, resolved |-> resolved]

MarketA == Market(<<"1">>, <<"A", "b">>, 60, 40, FALSE, FALSE)
MarketB == Market(<<"2">>, <<"b", "c">>, 30, 70, FALSE, FALSE)
MarketC == Market(<<"3">>, <<"c">>, 50, 50, FALSE, FALSE)
MarketClosed == Market(<<"4">>, <<"a">>, 50, 50, TRUE, FALSE)
MarketSettled == Market(<<"5">>, <<"b">>, 99, 1, FALSE, FALSE)

FetchedLists ==
    { <<MarketA, MarketB, MarketC>>,
      <<MarketA, MarketClosed, MarketB>>,
      <<MarketSettled, MarketA, MarketB>>,
      <<MarketA, MarketSettled>>,
      <<MarketA>> }

Entry(id, question) ==
    [type |-> "object", market_id |-> id, market_question |-> question]

\* Objects the oracle may answer with, by what their entries are.
GoodObjects ==
    { [type |-> "object", implied_by |-> JList(<<Entry(JStr(<<"2">>), JStr(<<"b", "c">>))>>),
                          implies |-> JList(<<>>)],
      [type |-> "object", implied_by |-> JList(<<>>),
                          implies |-> JList(<<Entry(JStr(<<"9">>), JStr(<<"C">>))>>)],
      [type |-> "object", implied_by |-> JList(<<Entry(JStr(<<"9">>), JStr(<<"z">>))>>),
                          implies |-> JList(<<Entry(JStr(<<"1">>), JStr(<<"A", "b">>))>>)],
      [type |-> "object", note |-> JNull] }

BadEntryObjects ==
    { [type |-> "object", implied_by |-> JList(<<Entry(JStr(<<"2">>), JStr(<<"b", "c">>)),
                                                 JStr(<<"x">>)>>)],
      [type |-> "object", implied_by |-> JNull],
      [type |-> "object", implies |-> JList(<<JNum(7)>>)],
      [type |-> "object", implied_by |-> JList(<<Entry(JStr(<<"9">>), JNull)>>)],
      [type |-> "object", implied_by |-> JList(<<Entry(JList(<<>>), JStr(<<"c">>))>>)] }

NonObjectValues ==
    { JList(<<JNum(1)>>), JList(<<>>), JNum(42), JNum(0), JNull, JStr(<<"x">>) }

ObjectText(obj) ==
    IF obj = JEmptyObject THEN <<Tok("lbrace"), Tok("rbrace")>>
    ELSE <<Tok("lbrace"), TokV("members", obj), Tok("rbrace")>>

\* The JSON part of a reply: its text, what it is, and the object it holds.
Bodies ==
    {[body_kind |-> "object", object |-> o, text |-> ObjectText(o)] :
        o \in GoodObjects \cup {JEmptyObject}}
    \cup {[body_kind |-> "object_bad_entries", object |-> o, text |-> ObjectText(o)] :
            o \in BadEntryObjects}
    \cup {[body_kind |-> "non_object", object |-> JNull, text |-> <<TokV("value", v)>>] :
            v \in NonObjectValues}
    \cup {[body_kind |-> "garbage", object |-> JNull, text |-> t] :
            t \in { <<>>, <<Tok("prose")>>,
                    <<Tok("lbrace"), TokV("members", JEmptyObject)>> }}

ProseBefore == { <<>>, <<Tok("prose"), Tok("ws")>> }
ProseAfter == { <<>>, <<Tok("ws"), Tok("prose")>> }
FenceOpen ==
    { [open |-> "none", text |-> <<>>],
      [open |-> "json", text |-> <<Tok("fence"), Tok("tag"), Tok("ws")>>],
      [open |-> "plain", text |-> <<Tok("fence"), Tok("ws")>>] }
FenceClose ==
    { [close |-> "none", text |-> <<>>],
      [close |-> "fence", text |-> <<Tok("ws"), Tok("fence")>>] }

\* What llm.complete may do for one target.
OracleReplies ==
    { [kind |-> "error"], [kind |-> "none"] }
    \cup { [kind |-> "text", before |-> b, open |-> o.open, body_kind |-> j.body_kind,
            object |-> j.object, close |-> c.close, after |-> a,
            text |-> b \o o.text \o j.text \o c.text \o a] :
           b \in ProseBefore, o \in FenceOpen, j \in Bodies, c \in FenceClose,
           a \in ProseAfter }

ScanInit ==
    /\ sc_pc = "start"
    /\ sc_markets \in FetchedLists
    /\ sc_i = 0
    /\ sc_reply = [kind |-> "none"]
    /\ sc_parsed = JNull
    /\ sc_ret = <<>>
    /\ sc_called = 0
    /\ sc_portfolios = <<>>
    /\ sc_args = NoArgs
    /\ sc_printed = <<>>

\* Mutant of ScanStart: every fetched market is scanned.
ScanStart_without_filter ==
    /\ sc_pc = "start"
    /\ IF Len(sc_markets) < 2
       THEN sc_pc' = "exit_1" /\ UNCHANGED <<sc_markets, sc_i>>
       ELSE \/ sc_pc' = "exit_1" /\ UNCHANGED <<sc_markets, sc_i>>
            \/ sc_pc' = "loop" /\ sc_markets' = sc_markets /\ sc_i' = 1
    /\ UNCHANGED <<sc_reply, sc_parsed, sc_ret, sc_called, sc_portfolios, sc_args,
                   sc_printed>>
    /\ UNCHANGED <<tradeVars, liqVars, coversVars, covVars, arbVars, llmVars, gammaVars>>

\* hedge.py 383-423: too few markets, the temporal filter, the oracle's
\* configuration.
ScanStart ==
    /\ sc_pc = "start"
    /\ IF Len(sc_markets) < 2
       THEN sc_pc' = "exit_1" /\ UNCHANGED <<sc_markets, sc_i>>
       ELSE LET active_markets ==
                    SelectSeq(sc_markets,
                              LAMBDA m : ~m.closed /\ ~m.resolved
                                         /\ m.yes_price < 99 /\ m.no_price < 99)
            IN IF Len(active_markets) < 2
               THEN sc_pc' = "exit_0" /\ UNCHANGED <<sc_markets, sc_i>>
               ELSE \/ sc_pc' = "exit_1" /\ UNCHANGED <<sc_markets, sc_i>>
                    \/ sc_pc' = "loop" /\ sc_markets' = active_markets /\ sc_i' = 1
    /\ UNCHANGED <<sc_reply, sc_parsed, sc_ret, sc_called, sc_portfolios, sc_args,
                   sc_printed>>
    /\ UNCHANGED <<tradeVars, liqVars, coversVars, covVars, arbVars, llmVars, gammaVars>>

\* hedge.py 431-445: one pass of the loop over the targets, the portfolios of
\* its covers appended to all_portfolios.  An exception out
\* of extract_implications_for_market leaves the loop and cmd_scan.
ScanTarget ==
    /\ sc_pc = "loop"
    /\ sc_i <= Len(sc_markets)
    /\ \E reply \in OracleReplies :
        \E covers \in {extract_implications_for_market(sc_markets[sc_i], sc_markets,
                                                       reply)} :
           /\ sc_reply' = reply
           /\ sc_parsed' = IF reply.kind = "text"
                           THEN extract_json_from_response(reply.text)
                           ELSE JNull
           /\ sc_called' = sc_called + 1
           /\ IF covers.exc
              THEN sc_pc' = "aborted" /\ UNCHANGED <<sc_i, sc_ret, sc_portfolios>>
              ELSE /\ sc_pc' = "loop" /\ sc_i' = sc_i + 1 /\ sc_ret' = covers.val
                   /\ IF covers.val = <<>>
                      THEN UNCHANGED sc_portfolios
                      ELSE sc_portfolios' \in
                             { sc_portfolios
                                 \o build_portfolios_from_covers(sc_markets[sc_i],
                                                                 covers.val, ties) :
                               ties \in Ties }
    /\ UNCHANGED <<sc_markets, sc_args, sc_printed>>
    /\ UNCHANGED <<tradeVars, liqVars, coversVars, covVars, arbVars, llmVars, gammaVars>>

\* hedge.py 584-585: --min-coverage (in units of 0.00001, default 0.85) and
\* --tier (default 2); a value of 0 is falsy and switches the filter off.
ArgsMinCoverage == {0, MIN_COVERAGE, 99 * 1000}
ArgsTier == {0, 1, 2, 4}

\* hedge.py 458: tuple(sorted([target_id, cover_id])); two such tuples are
\* equal exactly when they hold the same ids.
pair_of(p) == {p.target_id, p.cover_id}

\* Mutant of unique_portfolios: the pair keeps its order, (target, cover).
unique_portfolios_ordered_pairs(portfolios, seen_pairs) ==
    LET keep(i) == \A j \in 1..(i - 1) :
                       <<portfolios[j].target_id, portfolios[j].cover_id>>
                           # <<portfolios[i].target_id, portfolios[i].cover_id>>
        F[i \in 0..Len(portfolios)] ==
            IF i = 0 THEN <<>>
            ELSE IF keep(i) THEN Append(F[i - 1], portfolios[i]) ELSE F[i - 1]
    IN F[Len(portfolios)]

\* hedge.py 454-462: the loop that keeps the first portfolio of every pair.
RECURSIVE unique_portfolios(_, _)
unique_portfolios(portfolios, seen_pairs) ==
    IF portfolios = <<>> THEN <<>>
    ELSE LET p == Head(portfolios)
         IN IF pair_of(p) \notin seen_pairs
            THEN <<p>> \o unique_portfolios(Tail(portfolios),
                                            seen_pairs \cup {pair_of(p)})
            ELSE unique_portfolios(Tail(portfolios), seen_pairs)

\* hedge.py 447-474: the loop is over; the portfolios are filtered, one is kept
\* for every pair, they are sorted and printed.
ScanOutput ==
    /\ sc_pc = "loop"
    /\ sc_i > Len(sc_markets)
    /\ \E min_coverage \in ArgsMinCoverage, tier \in ArgsTier :
        LET by_coverage == IF min_coverage # 0
                           THEN filter_portfolios_by_coverage(sc_portfolios,
                                                              min_coverage)
                           ELSE sc_portfolios
            by_tier == IF tier # 0
                       THEN filter_portfolios_by_tier(by_coverage, tier)
                       ELSE by_coverage
        IN /\ sc_args' = [min_coverage |-> min_coverage, tier |-> tier]
           /\ sc_printed' = sort_portfolios(unique_portfolios(by_tier, {}))
    /\ sc_pc' = "exit_0"
    /\ UNCHANGED <<sc_markets, sc_i, sc_reply, sc_parsed, sc_ret, sc_called,
                   sc_portfolios>>
    /\ UNCHANGED <<tradeVars, liqVars, coversVars, covVars, arbVars, llmVars, gammaVars>>

InitScan == TradeIdle /\ LiqIdle /\ ScanInit /\ CoversIdle /\ CoverageIdle /\ ArbitrageIdle /\ LlmIdle /\ GammaIdle

NextScan ==
    \/ ScanStart
    \/ ScanTarget
    \/ ScanOutput

SpecScan == InitScan /\ [][NextScan]_vars

-----------------------------------------------------------------------------
(* Claims about the hedge scan, checked under SpecScan *)

\* The oracle call failed, or its reply holds no JSON object of the expected
\* shape: no JSON at all, a JSON value that is no object, entries of a wrong type.
FailedOrMalformed(reply) ==
    \/ reply.kind \in {"error", "none"}
    \/ /\ reply.kind = "text"
       /\ reply.body_kind \in {"garbage", "non_object", "object_bad_entries"}

\* C9: extract_implications_for_market never raises into the scan loop; a
\* failed oracle call or a malformed reply gives the empty list, and the loop
\* goes on to the next target.
C9_NeverRaises ==
    /\ sc_pc # "aborted"
    /\ (sc_called > 0 /\ FailedOrMalformed(sc_reply)) => sc_ret = <<>>
    /\ sc_pc = "loop" => sc_i = sc_called + 1

C9_Witness ==
    /\ sc_pc = "loop" /\ sc_called = 2 /\ sc_i = 3
    /\ sc_reply.kind = "text" /\ sc_reply.body_kind = "object_bad_entries"
    /\ sc_parsed.type = "object" /\ sc_ret = <<>>

C9_WitnessOracleError ==
    sc_pc = "exit_0" /\ sc_called = 3 /\ sc_reply.kind = "error"

ScanFoundCovers == sc_called > 0 /\ Len(sc_ret) = 1 /\ sc_reply.open = "json"

\* The shapes of reply C10 names: the object bare or between an opening fence
\* (tagged json or plain) and a closing fence, with or without prose around.
NamedShape(reply) ==
    /\ reply.kind = "text"
    /\ reply.body_kind \in {"object", "object_bad_entries"}
    /\ \/ reply.open = "none" /\ reply.close = "none"
       \/ reply.open \in {"json", "plain"} /\ reply.close = "fence"

\* C10: for a reply holding one JSON object, bare, with prose around it, or in a
\* fenced block with or without the json tag, extract_json_from_response
\* returns that object.
C10_ObjectExtracted ==
    (sc_called > 0 /\ NamedShape(sc_reply)) => sc_parsed = sc_reply.object

-----------------------------------------------------------------------------
(* derive_covers_from_implications and match_market_to_list on their own:
   every candidate list, target, oracle object and reference of the input
   sets, then one call. *)

\* Most entries an oracle object holds, implied_by and implies together.
MaxEntries == 2

MarketDup == Market(<<"6">>, <<"A", "B">>, 50, 50, FALSE, FALSE)

\* Candidate lists.  In the second, two candidates have the same question up to
\* case.
CoverLists ==
    { <<MarketA, MarketB, MarketC>>,
      <<MarketA, MarketC, MarketDup>>,
      <<MarketC, MarketB>> }

EntryWith(id, question, extra) ==
    [type |-> "object", market_id |-> id, market_question |-> question,
     probability |-> extra]

\* References of the oracle: to an id of the list (with a question of another
\* candidate and a confidence of its own), to a question up to case, to a part
\* of a question, to nothing, with an empty question, with a number as the id.
WellTypedRefs ==
    { EntryWith(JStr(<<"1">>), JStr(<<"b", "c">>), JNum(50)),
      Entry(JStr(<<"9">>), JStr(<<"B", "C">>)),
      Entry(JStr(<<"9">>), JStr(<<"b">>)),
      Entry(JStr(<<"9">>), JStr(<<"z">>)),
      Entry(JStr(<<"9">>), JStr(<<>>)),
      Entry(JNum(3), JStr(<<" ", "c">>)) }

\* An entry whose question is null.
IllTypedRefs == { Entry(JStr(<<"9">>), JNull) }

\* An entry without a question.
QuestionlessRefs == { [type |-> "object", market_id |-> JStr(<<"9">>)] }

Refs == WellTypedRefs \cup IllTypedRefs \cup QuestionlessRefs

EntryLists == UNION {[1..n -> Refs] : n \in 0..MaxEntries}

\* Objects of the oracle with at most MaxEntries entries.
LlmResults ==
    { r \in { [type |-> "object", implied_by |-> JList(a), implies |-> JList(b)] :
                a \in EntryLists, b \in EntryLists } :
        Len(r.implied_by.items) + Len(r.implies.items) <= MaxEntries }

CoversInit ==
    /\ dc_pc \in {"derive", "match"}
    /\ dc_markets \in CoverLists
    /\ dc_target \in {dc_markets[i] : i \in 1..Len(dc_markets)}
    /\ IF dc_pc = "derive"
       THEN dc_llm \in LlmResults /\ dc_ref = [type |-> "object"]
       ELSE dc_llm = [type |-> "object"] /\ dc_ref \in Refs
    /\ dc_covers = [exc |-> FALSE, val |-> <<>>]
    /\ dc_matched = [exc |-> FALSE, found |-> FALSE, market |-> NoMarket]

\* hedge.py 189-248, called as extract_implications_for_market calls it.
DeriveCovers ==
    /\ dc_pc = "derive"
    /\ dc_pc' = "derived"
    /\ dc_covers' = derive_covers_from_implications(dc_llm, dc_target, dc_markets)
    /\ UNCHANGED <<dc_markets, dc_target, dc_llm, dc_ref, dc_matched>>
    /\ UNCHANGED <<tradeVars, liqVars, scanVars, covVars, arbVars, llmVars, gammaVars>>

\* hedge.py 165-186, with the lookup tables derive_covers_from_implications
\* builds (hedge.py 202-203) and the fields it reads from the entry (211-212).
MatchMarket ==
    /\ dc_pc = "match"
    /\ dc_pc' = "matched"
    /\ dc_matched' = match_market_to_list(
                         json_get(dc_ref, "market_id", JStr(<<>>)),
                         json_get(dc_ref, "market_question", JStr(<<>>)),
                         markets_by_id_of(dc_markets, <<>>),
                         markets_by_question_of(dc_markets, <<>>))
    /\ UNCHANGED <<dc_markets, dc_target, dc_llm, dc_ref, dc_covers>>
    /\ UNCHANGED <<tradeVars, liqVars, scanVars, covVars, arbVars, llmVars, gammaVars>>

InitCovers == TradeIdle /\ LiqIdle /\ ScanIdle /\ CoversInit /\ CoverageIdle /\ ArbitrageIdle /\ LlmIdle /\ GammaIdle

NextCovers ==
    \/ DeriveCovers
    \/ MatchMarket

SpecCovers == InitCovers /\ [][NextCovers]_vars

-----------------------------------------------------------------------------
(* Claims about the cover derivation, checked under SpecCovers *)

\* An entry is a market reference: its id a string or a number, its question a
\* string.
IsReference(e) ==
    /\ e.type = "object"
    /\ "market_question" \in DOMAIN e
    /\ e.market_id.type \in {"string", "number"}
    /\ e.market_question.type = "string"

AllEntries(llm) == llm.implied_by.items \o llm.implies.items

AllReferences(llm) ==
    \A i \in 1..Len(AllEntries(llm)) : IsReference(AllEntries(llm)[i])

Normal(question) == str_strip(lower(question))

IdRefers(e, m) == e.market_id.type = "string" /\ e.market_id.s = m.id
QuestionRefers(e, m) == Normal(e.market_question.s) = Normal(m.question)
PartRefers(e, m) ==
    \/ contains(Normal(e.market_question.s), Normal(m.question))
    \/ contains(Normal(m.question), Normal(e.market_question.s))

\* The entry matches some candidate by one of the three rules.
RefersToSome(e, markets) ==
    \E i \in 1..Len(markets) :
        IdRefers(e, markets[i]) \/ QuestionRefers(e, markets[i]) \/ PartRefers(e, markets[i])

Count(seq, P(_)) == Cardinality({i \in 1..Len(seq) : P(seq[i])})

C11_WitnessCover ==
    /\ dc_pc = "derived" /\ AllReferences(dc_llm)
    /\ Len(AllEntries(dc_llm)) = 2 /\ Len(dc_covers.val) = 1
    /\ ~RefersToSome(AllEntries(dc_llm)[1], dc_markets)

\* The market the three rules of the claim select, in their priority order.
IndexOfFirst(markets, P(_)) ==
    CHOOSE i \in 1..Len(markets) :
        P(markets[i]) /\ \A j \in 1..(i - 1) : ~P(markets[j])

\* C12: match_market_to_list resolves a reference by id first, else by the
\* question up to case, else to the first candidate in candidate order whose
\* question contains or is contained in the referenced one, else to none.
C12_MatchPriority ==
    (dc_pc = "matched" /\ IsReference(dc_ref))
        => /\ ~dc_matched.exc
           /\ IF \E i \in 1..Len(dc_markets) : IdRefers(dc_ref, dc_markets[i])
              THEN dc_matched.found /\ IdRefers(dc_ref, dc_matched.market)
              ELSE IF \E i \in 1..Len(dc_markets) : QuestionRefers(dc_ref, dc_markets[i])
              THEN dc_matched.found /\ QuestionRefers(dc_ref, dc_matched.market)
              ELSE IF \E i \in 1..Len(dc_markets) : PartRefers(dc_ref, dc_markets[i])
              THEN /\ dc_matched.found
                   /\ dc_matched.market
                        = dc_markets[IndexOfFirst(dc_markets,
                                                  LAMBDA m : PartRefers(dc_ref, m))]
              ELSE ~dc_matched.found

\* C13: covers of implied_by entries are (YES, NO), covers of implies entries
\* are (NO, YES), and every cover has the probability 0.98 whatever the entry
\* holds.  The covers of implied_by come first in the list returned.
IsYesNo(c) == c.target_position = "YES" /\ c.cover_position = "NO"
IsNoYes(c) == c.target_position = "NO" /\ c.cover_position = "YES"

C13_PositionsAndProbability ==
    (dc_pc = "derived" /\ AllReferences(dc_llm))
        => LET covers == dc_covers.val
           IN /\ \A i \in 1..Len(covers) : covers[i].probability = NECESSARY_PROBABILITY
              /\ dc_llm.implies.items = <<>>
                    => \A i \in 1..Len(covers) : IsYesNo(covers[i])
              /\ dc_llm.implied_by.items = <<>>
                    => \A i \in 1..Len(covers) : IsNoYes(covers[i])
              /\ \E k \in 0..Len(covers) :
                    /\ k <= Len(dc_llm.implied_by.items)
                    /\ Len(covers) - k <= Len(dc_llm.implies.items)
                    /\ \A i \in 1..k : IsYesNo(covers[i])
                    /\ \A i \in (k + 1)..Len(covers) : IsNoYes(covers[i])

\* One cover of each kind, the implied_by entry carrying a probability of 0.5.
C13_Witness ==
    /\ dc_pc = "derived" /\ AllReferences(dc_llm)
    /\ dc_target = MarketC
    /\ dc_llm.implied_by.items = <<EntryWith(JStr(<<"1">>), JStr(<<"b", "c">>), JNum(50))>>
    /\ Len(dc_llm.implies.items) = 1
    /\ Len(dc_covers.val) = 2
    /\ IsYesNo(dc_covers.val[1]) /\ dc_covers.val[1].cover_market = MarketA
    /\ IsNoYes(dc_covers.val[2])

-----------------------------------------------------------------------------
(* lib/coverage.py on its own: build_portfolio, classify_tier and
   calculate_coverage_metrics, each called once on every argument of the input
   sets. *)

MarketDict(id, yes_price, no_price) ==
    [id |-> id, yes_price |-> yes_price, no_price |-> no_price]

\* Market dicts: the prices of the spec's scenarios A (0.80, 0.15) and B (0.07),
\* prices with five decimals, a price of zero, prices of 1.0 and above.
CoverageMarkets ==
    { MarketDict(<<"1">>, 80000, 20000),
      MarketDict(<<"2">>, 15000, 85000),
      MarketDict(<<"3">>, 7000, 7000),
      MarketDict(<<"4">>, 50000, 49996),
      MarketDict(<<"5">>, 2, 0),
      MarketDict(<<"6">>, 120000, 100000),
      MarketDict(<<"7">>, 90000, 1000),
      MarketDict(<<"8">>, 69992, 89992),
      MarketDict(<<"9">>, 50000, 50000) }

CoverProbabilities == {0, 15, 50, 90, 95, NECESSARY_PROBABILITY, 100}

BuildInputs ==
    [fn : {"build"}, target_market : CoverageMarkets, cover_market : CoverageMarkets,
     target_position : {"YES", "NO"}, cover_position : {"YES", "NO"},
     cover_probability : CoverProbabilities, ties : Ties]

ClassifyInputs ==
    [fn : {"classify"},
     coverage : {0, 84990, 84999, 85000, 89999, 90000, 94999, 95000, 99600, 100000},
     total_cost : {0, 50000, 95000, 99999, 100000, 150000}]

MetricsInputs ==
    [fn : {"metrics"}, target_price : {0, 100, 7000, 50000, 69990, 80000, 100000},
     cover_probability : CoverProbabilities, total_cost : {14000, 95000}, ties : Ties]

\* Longest list of portfolios sorted on its own.
MaxPortfolios == 3

\* Portfolios by the fields sort_portfolios reads, and the target's id to tell
\* apart portfolios of equal key.
SortedFields ==
    [target_id : {<<"1">>, <<"2">>}, tier : {1, 2, 4}, coverage : {98000, 99400}]

SortInputs == [fn : {"sort"}, portfolios : SeqsUpTo(SortedFields, MaxPortfolios)]

CoverageInit ==
    /\ cv_in \in BuildInputs \cup ClassifyInputs \cup MetricsInputs \cup SortInputs
    /\ cv_pc = cv_in.fn
    /\ cv_out = [none |-> TRUE]

\* coverage.py 112-217
BuildPortfolio ==
    /\ cv_pc = "build"
    /\ cv_pc' = "built"
    /\ cv_out' = build_portfolio(cv_in.target_market, cv_in.cover_market,
                                 cv_in.target_position, cv_in.cover_position,
                                 cv_in.cover_probability, cv_in.ties)
    /\ UNCHANGED cv_in
    /\ UNCHANGED <<tradeVars, liqVars, scanVars, coversVars, arbVars, llmVars, gammaVars>>

\* coverage.py 82-96
ClassifyTier ==
    /\ cv_pc = "classify"
    /\ cv_pc' = "classified"
    /\ LET tier == classify_tier(cv_in.coverage, cv_in.total_cost)
       IN cv_out' = [none |-> FALSE, tier |-> tier[1], tier_label |-> tier[2]]
    /\ UNCHANGED cv_in
    /\ UNCHANGED <<tradeVars, liqVars, scanVars, coversVars, arbVars, llmVars, gammaVars>>

\* coverage.py 47-79
CalculateCoverageMetrics ==
    /\ cv_pc = "metrics"
    /\ cv_pc' = "measured"
    /\ cv_out' = calculate_coverage_metrics(cv_in.target_price, cv_in.cover_probability,
                                            cv_in.total_cost, cv_in.ties)
    /\ UNCHANGED cv_in
    /\ UNCHANGED <<tradeVars, liqVars, scanVars, coversVars, arbVars, llmVars, gammaVars>>

\* coverage.py 254-256
SortPortfolios ==
    /\ cv_pc = "sort"
    /\ cv_pc' = "sorted"
    /\ cv_out' = [none |-> FALSE, portfolios |-> sort_portfolios(cv_in.portfolios)]
    /\ UNCHANGED cv_in
    /\ UNCHANGED <<tradeVars, liqVars, scanVars, coversVars, arbVars, llmVars, gammaVars>>

InitCoverage == TradeIdle /\ LiqIdle /\ ScanIdle /\ CoversIdle /\ CoverageInit /\ ArbitrageIdle /\ LlmIdle /\ GammaIdle

NextCoverage ==
    \/ BuildPortfolio
    \/ ClassifyTier
    \/ CalculateCoverageMetrics
    \/ SortPortfolios

SpecCoverage == InitCoverage /\ [][NextCoverage]_vars

-----------------------------------------------------------------------------
(* Claims about lib/coverage.py, checked under SpecCoverage *)

\* The prices build_portfolio was called with, by the positions.
TargetPrice ==
    IF cv_in.target_position = "YES" THEN cv_in.target_market.yes_price
    ELSE cv_in.target_market.no_price
CoverPrice ==
    IF cv_in.cover_position = "YES" THEN cv_in.cover_market.yes_price
    ELSE cv_in.cover_market.no_price

\* cover_price / (1 - target_price) < 0.5 for a target price up to 1.0, the
\* quotient taken as 1.0 when the target price is 1.0.
QuotientBelowHalf == TargetPrice < One /\ 2 * CoverPrice < One - TargetPrice

\* The coverage of the inputs, unrounded, in units of 0.0000001.
ExactCoverage ==
    TargetPrice * 100 + (One - TargetPrice) * cv_in.cover_probability

\* C14: build_portfolio returns none whenever cover_probability >= 0.95 and
\* cover_price / (1 - target_price) < 0.5, even when the coverage of the inputs
\* is 0.85 or more; target 0.07, cover 0.07, probability 0.98 is rejected.
C14_SanityFilter ==
    (/\ cv_pc = "built"
     /\ TargetPrice <= One
     /\ cv_in.cover_probability >= 95
     /\ QuotientBelowHalf)
        => cv_out.none

\* Scenario B.
C14_Witness ==
    /\ cv_pc = "built"
    /\ cv_in.target_position = "NO" /\ TargetPrice = 7000
    /\ cv_in.cover_position = "YES" /\ CoverPrice = 7000
    /\ cv_in.cover_probability = 98
    /\ cv_out.none

\* Rejected with a coverage of 0.998 and a valid total cost.
C14_WitnessHighCoverage ==
    /\ cv_pc = "built"
    /\ TargetPrice = 90000 /\ CoverPrice = 1000 /\ cv_in.cover_probability = 98
    /\ ExactCoverage >= MIN_COVERAGE * 100
    /\ cv_out.none

\* C15: build_portfolio returns none when the summed price is <= 0 or > 2.0;
\* a record it returns has 0 < total_cost <= 2.0, coverage >= 0.85, and the
\* tier and label classify_tier gives for the record's own coverage and
\* total_cost.
C15_CostAndTierInvariants ==
    cv_pc = "built"
        => /\ (TargetPrice + CoverPrice <= 0 \/ TargetPrice + CoverPrice > 2 * One)
                => cv_out.none
           /\ ~cv_out.none
                => /\ 0 < cv_out.total_cost /\ cv_out.total_cost <= 2 * One
                   /\ cv_out.coverage >= MIN_COVERAGE
                   /\ <<cv_out.tier, cv_out.tier_label>>
                        = classify_tier(cv_out.coverage, cv_out.total_cost)

\* C16: classify_tier gives (4, LOW) when total_cost >= 1.0 whatever the
\* coverage; else 1/HIGH from 0.95, 2/GOOD from 0.90, 3/MODERATE from 0.85,
\* 4/LOW below, a threshold value belonging to the better tier.
C16_TierTable ==
    cv_pc = "classified"
        => <<cv_out.tier, cv_out.tier_label>>
             = IF cv_in.total_cost >= One THEN <<4, "LOW">>
               ELSE IF cv_in.coverage >= 95000 THEN <<1, "HIGH">>
               ELSE IF cv_in.coverage >= 90000 THEN <<2, "GOOD">>
               ELSE IF cv_in.coverage >= 85000 THEN <<3, "MODERATE">>
               ELSE <<4, "LOW">>

\* A coverage of 0.996 at a cost of 1.0 is tier 4.
C16_Witness ==
    /\ cv_pc = "classified"
    /\ cv_in.coverage = 99600 /\ cv_in.total_cost = One
    /\ cv_out.tier = 4 /\ cv_out.tier_label = "LOW"

\* A coverage of exactly 0.90 below a cost of 1.0 is tier 2.
C16_WitnessThreshold ==
    /\ cv_pc = "classified"
    /\ cv_in.coverage = 90000 /\ cv_in.total_cost = 99999
    /\ cv_out.tier = 2 /\ cv_out.tier_label = "GOOD"

\* C17: build_portfolio compares the unrounded coverage with 0.85 and with the
\* tier thresholds: inputs whose exact coverage is below 0.85 are rejected, and
\* inputs whose exact coverage is below 0.95 are not tier 1.
C17_UnroundedComparisons ==
    cv_pc = "built"
        => /\ ExactCoverage < MIN_COVERAGE * 100 => cv_out.none
           /\ (~cv_out.none /\ ExactCoverage < 95000 * 100) => cv_out.tier # 1

\* C18: the coverage and the loss probability calculate_coverage_metrics
\* returns sum to 1 for every target price and cover probability in [0, 1];
\* 0.80, 0.98, 0.95 give 0.996, 0.004 and 0.046.
C18_CoverageLossSumToOne ==
    (/\ cv_pc = "measured"
     /\ cv_in.target_price \in 0..One
     /\ cv_in.cover_probability \in 0..100)
        => /\ cv_out.coverage + cv_out.loss_probability = One
           /\ (/\ cv_in.target_price = 80000
               /\ cv_in.cover_probability = 98
               /\ cv_in.total_cost = 95000)
                 => /\ cv_out.coverage = 99600
                    /\ cv_out.loss_probability = 400
                    /\ cv_out.expected_profit = 4600

-----------------------------------------------------------------------------
(* lib/arbitrage.py and the hierarchical-split phase of
   scripts/scan_arbitrage.py.  Prices and costs in units of 0.00001; an amount
   of an execution step is the quotient num / den, kept as the pair. *)

\* Most component markets of a split, and most outcomes of a NegRisk group.
MaxComponents == 2

ArbMarket(id, yes_price, no_price) ==
    [id |-> id, yes_token_id |-> id \o <<"y">>, no_token_id |-> id \o <<"n">>,
     yes_price |-> yes_price, no_price |-> no_price]

\* The prices of the spec's scenario C (0.40 for the aggregate's NO, 0.30 and
\* 0.25), and a market whose YES costs nothing.
ArbMarkets ==
    { ArbMarket(<<"1">>, 60000, 40000),
      ArbMarket(<<"2">>, 30000, 70000),
      ArbMarket(<<"3">>, 25000, 75000),
      ArbMarket(<<"4">>, 0, 0) }

ArbitrageLeg(token_id, side, price, market_id) ==
    [token_id |-> token_id, side |-> side, price |-> price, market_id |-> market_id]

\* The loops of arbitrage.py 61-69 and 89-97: the YES legs of the markets,
\* appended to legs in order.
RECURSIVE yes_legs(_, _)
yes_legs(markets, legs) ==
    IF markets = <<>> THEN legs
    ELSE yes_legs(Tail(markets),
                  Append(legs, ArbitrageLeg(Head(markets).yes_token_id, "YES",
                                            Head(markets).yes_price, Head(markets).id)))

\* total_cost += m.yes_price over the markets, from a starting cost.
RECURSIVE add_yes_prices(_, _)
add_yes_prices(markets, total_cost) ==
    IF markets = <<>> THEN total_cost
    ELSE add_yes_prices(Tail(markets), total_cost + Head(markets).yes_price)

ArbitragePortfolio(type, legs, total_cost, profit_margin) ==
    [none |-> FALSE, type |-> type, legs |-> legs, total_cost |-> total_cost,
     profit_margin |-> profit_margin]

\* arbitrage.py 42-79
calculate_split_arbitrage(agg_market, component_markets) ==
    LET legs == yes_legs(component_markets,
                         <<ArbitrageLeg(agg_market.no_token_id, "NO",
                                        agg_market.no_price, agg_market.id)>>)
        total_cost == add_yes_prices(component_markets, agg_market.no_price)
    IN ArbitragePortfolio("SPLIT", legs, total_cost, One - total_cost)

\* arbitrage.py 81-107
calculate_negrisk_arbitrage(markets) ==
    LET legs == yes_legs(markets, <<>>)
        total_cost == add_yes_prices(markets, 0)
    IN ArbitragePortfolio("NEGRISK", legs, total_cost, One - total_cost)

\* Mutant of get_execution_steps: the capital is split evenly over the legs.
get_execution_steps_evenly(portfolio, total_capital) ==
    [exc |-> FALSE,
     val |-> [i \in 1..Len(portfolio.legs) |->
                [market_id |-> portfolio.legs[i].market_id,
                 position |-> portfolio.legs[i].side,
                 amount |-> [num |-> total_capital, den |-> Len(portfolio.legs)]]]]

\* arbitrage.py 28-40.  exc: leg.price / self.total_cost with a total cost of
\* zero (ZeroDivisionError).
get_execution_steps(portfolio, total_capital) ==
    IF portfolio.legs # <<>> /\ portfolio.total_cost = 0
    THEN [exc |-> TRUE, val |-> <<>>]
    ELSE [exc |-> FALSE,
          val |-> [i \in 1..Len(portfolio.legs) |->
                     [market_id |-> portfolio.legs[i].market_id,
                      position |-> portfolio.legs[i].side,
                      amount |-> [num |-> total_capital * portfolio.legs[i].price,
                                  den |-> portfolio.total_cost]]]]

\* gamma_client.py 230: the parameters GammaClient.get_prices takes.
get_prices_parameters == {"token_ids"}

\* scan_arbitrage.py 110: the arguments the scan calls get_prices with.
scan_get_prices_arguments == {"token_ids", "side"}

\* A call with an argument the function has no parameter for raises TypeError.
call_raises(arguments, parameters) == ~(arguments \subseteq parameters)

\* prices.get(token_id, 1.0), prices a set of <<token_id, price>>
fresh_price(prices, token_id) ==
    IF \E p \in prices : p[1] = token_id
    THEN (CHOOSE p \in prices : p[1] = token_id)[2]
    ELSE One

RECURSIVE sum_prices(_)
sum_prices(legs) ==
    IF legs = <<>> THEN 0 ELSE Head(legs).price + sum_prices(Tail(legs))

\* scan_arbitrage.py 113-120: the leg prices overwritten, the cost and the
\* margin recomputed.
refresh_portfolio(portfolio, prices) ==
    LET legs == [i \in 1..Len(portfolio.legs) |->
                    [portfolio.legs[i] EXCEPT
                        !.price = fresh_price(prices, portfolio.legs[i].token_id)]]
        current_cost == sum_prices(legs)
    IN [portfolio EXCEPT !.legs = legs, !.total_cost = current_cost,
                         !.profit_margin = One - current_cost]

ComponentLists == UNION {[1..n -> ArbMarkets] : n \in 0..MaxComponents}

\* Fresh prices of the tokens: none known, or each YES token 0.01 dearer.
FreshPrices ==
    { {}, {<<m.yes_token_id, m.yes_price + 1000>> : m \in ArbMarkets} }

ArbitrageInit ==
    /\ ab_pc \in {"split", "negrisk", "scan"}
    /\ ab_in \in [none : {FALSE}, agg : ArbMarkets, comps : ComponentLists,
                  fresh : FreshPrices, capital : {10, 100}]
    /\ ab_portfolio = [none |-> TRUE]
    /\ ab_steps = [exc |-> FALSE, val |-> <<>>]

\* arbitrage.py 42-79
CalculateSplit ==
    /\ ab_pc = "split"
    /\ ab_pc' = "built"
    /\ ab_portfolio' = calculate_split_arbitrage(ab_in.agg, ab_in.comps)
    /\ UNCHANGED <<ab_in, ab_steps>>
    /\ UNCHANGED <<tradeVars, liqVars, scanVars, coversVars, covVars, llmVars, gammaVars>>

\* arbitrage.py 81-107
CalculateNegrisk ==
    /\ ab_pc = "negrisk"
    /\ ab_pc' = "built"
    /\ ab_portfolio' = calculate_negrisk_arbitrage(ab_in.comps)
    /\ UNCHANGED <<ab_in, ab_steps>>
    /\ UNCHANGED <<tradeVars, liqVars, scanVars, coversVars, covVars, llmVars, gammaVars>>

\* scan_arbitrage.py 103-128, one split of the scan command: the markets are
\* fetched, the portfolio built, then get_prices called; when the call raises,
\* the exception leaves scan(), else the leg prices are overwritten.
ScanSplit ==
    /\ ab_pc = "scan"
    /\ LET portfolio == calculate_split_arbitrage(ab_in.agg, ab_in.comps)
       IN IF call_raises(scan_get_prices_arguments, get_prices_parameters)
          THEN ab_pc' = "aborted" /\ ab_portfolio' = portfolio
          ELSE ab_pc' = "refreshed"
               /\ ab_portfolio' = refresh_portfolio(portfolio, ab_in.fresh)
    /\ UNCHANGED <<ab_in, ab_steps>>
    /\ UNCHANGED <<tradeVars, liqVars, scanVars, coversVars, covVars, llmVars, gammaVars>>

\* arbitrage.py 28-40, on a portfolio one of the two calculators built.
GetExecutionSteps ==
    /\ ab_pc = "built"
    /\ ab_pc' = "stepped"
    /\ ab_steps' = get_execution_steps(ab_portfolio, ab_in.capital)
    /\ UNCHANGED <<ab_in, ab_portfolio>>
    /\ UNCHANGED <<tradeVars, liqVars, scanVars, coversVars, covVars, llmVars, gammaVars>>

InitArbitrage == TradeIdle /\ LiqIdle /\ ScanIdle /\ CoversIdle /\ CoverageIdle /\ ArbitrageInit /\ LlmIdle /\ GammaIdle

NextArbitrage ==
    \/ CalculateSplit
    \/ CalculateNegrisk
    \/ ScanSplit
    \/ GetExecutionSteps

SpecArbitrage == InitArbitrage /\ [][NextArbitrage]_vars

-----------------------------------------------------------------------------
(* Claims about the arbitrage portfolios, checked under SpecArbitrage *)

RECURSIVE SumOf(_)
SumOf(numbers) ==
    IF numbers = <<>> THEN 0 ELSE Head(numbers) + SumOf(Tail(numbers))

LegPrices(portfolio) == [i \in 1..Len(portfolio.legs) |-> portfolio.legs[i].price]

\* total_cost is the sum of the leg prices and profit_margin is 1 - total_cost.
CostIsSumOfLegs(portfolio) ==
    /\ portfolio.total_cost = SumOf(LegPrices(portfolio))
    /\ portfolio.profit_margin = One - portfolio.total_cost

\* The legs of a split: the aggregate's NO, then the YES of each component in
\* order; of a NegRisk group: the YES of each outcome.
LegsAsStated(portfolio) ==
    LET yes(m) == ArbitrageLeg(m.yes_token_id, "YES", m.yes_price, m.id)
    IN IF portfolio.type = "SPLIT"
       THEN /\ Len(portfolio.legs) = Len(ab_in.comps) + 1
            /\ portfolio.legs[1] = ArbitrageLeg(ab_in.agg.no_token_id, "NO",
                                                ab_in.agg.no_price, ab_in.agg.id)
            /\ \A i \in 1..Len(ab_in.comps) : portfolio.legs[i + 1] = yes(ab_in.comps[i])
       ELSE /\ Len(portfolio.legs) = Len(ab_in.comps)
            /\ \A i \in 1..Len(ab_in.comps) : portfolio.legs[i] = yes(ab_in.comps[i])

\* C19: a portfolio built by calculate_split_arbitrage or
\* calculate_negrisk_arbitrage has total_cost equal to the sum of its leg
\* prices and profit_margin = 1 - total_cost, and the scan command overwrites
\* the leg prices with freshly fetched prices, after which both equalities hold.
C19_CostIsSumOfLegs ==
    /\ ab_pc \in {"built", "stepped"}
            => LegsAsStated(ab_portfolio) /\ CostIsSumOfLegs(ab_portfolio)
    /\ ~ab_portfolio.none /\ ab_pc \notin {"built", "stepped"}
            => /\ ab_pc = "refreshed"
               /\ CostIsSumOfLegs(ab_portfolio)
               /\ \A i \in 1..Len(ab_portfolio.legs) :
                      ab_portfolio.legs[i].price
                          = fresh_price(ab_in.fresh, ab_portfolio.legs[i].token_id)

\* The equalities at construction alone.
C19_BuiltCostIsSumOfLegs ==
    ~ab_portfolio.none => CostIsSumOfLegs(ab_portfolio)

\* round(100 * num / den), half-way values away from zero
Cents(quotient) == (200 * quotient.num + quotient.den) \div (2 * quotient.den)

\* C20: for a portfolio with legs and a positive total_cost equal to the sum of
\* its leg prices, get_execution_steps returns one step per leg, in leg
\* order, with amount = total_capital * leg.price / total_cost, and the
\* amounts sum to total_capital; legs 0.40, 0.30, 0.25 with capital 100 give
\* 42.11, 31.58, 26.32.
C20_StepsSplitCapital ==
    (/\ ab_pc = "stepped"
     /\ ab_portfolio.legs # <<>>
     /\ ab_portfolio.total_cost > 0
     /\ ab_portfolio.total_cost = SumOf(LegPrices(ab_portfolio)))
        => LET legs == ab_portfolio.legs
               steps == ab_steps.val
           IN /\ ~ab_steps.exc
              /\ Len(steps) = Len(legs)
              /\ \A i \in 1..Len(legs) :
                    /\ steps[i].market_id = legs[i].market_id
                    /\ steps[i].position = legs[i].side
                    /\ steps[i].amount.num = ab_in.capital * legs[i].price
                    /\ steps[i].amount.den = ab_portfolio.total_cost
              \* the amounts have one denominator: their sum is the sum of the
              \* numerators over it
              /\ SumOf([i \in 1..Len(steps) |-> steps[i].amount.num])
                    = ab_in.capital * ab_portfolio.total_cost
              /\ (ab_in.capital = 100 /\ LegPrices(ab_portfolio) = <<40000, 30000, 25000>>)
                    => [i \in 1..3 |-> Cents(steps[i].amount)] = <<4211, 3158, 2632>>

\* Scenario C.
C20_Witness ==
    /\ ab_pc = "stepped" /\ ab_in.capital = 100
    /\ ab_portfolio.type = "SPLIT"
    /\ LegPrices(ab_portfolio) = <<40000, 30000, 25000>>
    /\ ab_portfolio.total_cost = 95000 /\ ab_portfolio.profit_margin = 5000
    /\ ~ab_steps.exc /\ Len(ab_steps.val) = 3

-----------------------------------------------------------------------------
(* Claims about the output of the hedge scan, checked under SpecScan *)

ScanPrinted == sc_pc = "exit_0" /\ sc_args # NoArgs

\* Indices of all_portfolios whose pair is the pair of p.
FoundWithPair(p) == {k \in 1..Len(sc_portfolios) : pair_of(sc_portfolios[k]) = pair_of(p)}

PassesFilters(p) ==
    /\ sc_args.min_coverage # 0 => p.coverage >= sc_args.min_coverage
    /\ sc_args.tier # 0 => p.tier <= sc_args.tier

OnePerPair ==
    \A i, j \in 1..Len(sc_printed) :
        pair_of(sc_printed[i]) = pair_of(sc_printed[j]) => i = j

\* C30 as stated: the printed list has at most one portfolio for each unordered
\* pair {target_id, cover_id}, and the portfolio printed for a pair is the one
\* that the scan found first for that pair.
C30_FirstFoundKept ==
    ScanPrinted =>
        /\ OnePerPair
        /\ \A i \in 1..Len(sc_printed) :
              sc_printed[i] = sc_portfolios[Min(FoundWithPair(sc_printed[i]))]

\* C30 amended: the printed list has at most one portfolio for each unordered
\* pair, and the portfolio printed for a pair is the first one found for that
\* pair among the portfolios that pass the coverage and tier filters; a pair
\* with a portfolio that passes the filters is printed.
C30_FirstPassingKept ==
    ScanPrinted =>
        /\ OnePerPair
        /\ \A i \in 1..Len(sc_printed) :
              LET passing == {k \in FoundWithPair(sc_printed[i]) :
                                 PassesFilters(sc_portfolios[k])}
              IN passing # {} /\ sc_printed[i] = sc_portfolios[Min(passing)]
        /\ \A k \in 1..Len(sc_portfolios) :
              PassesFilters(sc_portfolios[k]) =>
                  \E i \in 1..Len(sc_printed) :
                      pair_of(sc_printed[i]) = pair_of(sc_portfolios[k])

\* The scan found a pair twice, once from each side, and printed it once.
C30_Witness ==
    /\ ScanPrinted
    /\ \E k, l \in 1..Len(sc_portfolios) :
          /\ k < l
          /\ pair_of(sc_portfolios[k]) = pair_of(sc_portfolios[l])
          /\ sc_portfolios[k].target_id # sc_portfolios[l].target_id
          /\ PassesFilters(sc_portfolios[k]) /\ PassesFilters(sc_portfolios[l])
    /\ sc_printed # <<>>

\* hedge.py 389-390, in cents.
Tradable(m) == ~m.closed /\ ~m.resolved /\ m.yes_price < 99 /\ m.no_price < 99

IsTradableMarket(id) ==
    \E i \in 1..Len(sc_markets) : sc_markets[i].id = id /\ Tradable(sc_markets[i])

\* C24: once the oracle has been called, every market of the scan (each is a
\* target in turn and a candidate for every target) is not closed, not resolved
\* and priced below 0.99 on both sides, and so is each market of a portfolio,
\* collected or printed; with fewer than two such markets the oracle is never
\* called.
C24_OnlyTradableMarkets ==
    /\ sc_called > 0 => \A i \in 1..Len(sc_markets) : Tradable(sc_markets[i])
    /\ Cardinality({i \in 1..Len(sc_markets) : Tradable(sc_markets[i])}) < 2
          => sc_called = 0
    /\ \A i \in 1..Len(sc_portfolios) :
          /\ IsTradableMarket(sc_portfolios[i].target_id)
          /\ IsTradableMarket(sc_portfolios[i].cover_id)
    /\ \A i \in 1..Len(sc_printed) :
          /\ IsTradableMarket(sc_printed[i].target_id)
          /\ IsTradableMarket(sc_printed[i].cover_id)

\* Two markets were left of three fetched, and a portfolio of them is printed.
C24_Witness ==
    /\ sc_pc = "exit_0" /\ sc_called = 2 /\ Len(sc_markets) = 2
    /\ sc_printed # <<>>

\* One tradable market left of two: the scan ends without a call.
C24_WitnessTooFew ==
    /\ sc_pc = "exit_0" /\ sc_called = 0
    /\ \E i \in 1..Len(sc_markets) : ~Tradable(sc_markets[i])

-----------------------------------------------------------------------------
(* Claims about sort_portfolios, checked under SpecCoverage *)

SameKey(p, q) == p.tier = q.tier /\ p.coverage = q.coverage

\* C21: sort_portfolios returns its input rearranged, by ascending tier and,
\* within a tier, by descending coverage; portfolios of equal tier and equal
\* coverage stay in the order they had in the input.
C21_StableSort ==
    cv_pc = "sorted" =>
        LET input == cv_in.portfolios
            output == cv_out.portfolios
        IN /\ Len(output) = Len(input)
           /\ \A i, j \in 1..Len(output) :
                 i < j => \/ output[i].tier < output[j].tier
                          \/ /\ output[i].tier = output[j].tier
                             /\ output[i].coverage >= output[j].coverage
           /\ \E f \in Permutations(1..Len(input)) :
                 /\ \A i \in 1..Len(output) : output[i] = input[f[i]]
                 /\ \A i, j \in 1..Len(output) :
                       (i < j /\ SameKey(output[i], output[j])) => f[i] < f[j]

\* A list that was out of order, with two different portfolios of equal key.
C21_Witness ==
    /\ cv_pc = "sorted"
    /\ cv_out.portfolios # cv_in.portfolios
    /\ \E i, j \in 1..Len(cv_in.portfolios) :
          /\ i < j
          /\ SameKey(cv_in.portfolios[i], cv_in.portfolios[j])
          /\ cv_in.portfolios[i] # cv_in.portfolios[j]

-----------------------------------------------------------------------------
(* Claims about the portfolios of the hedge pipeline, checked under
   SpecCoverage *)

InUnitRange(market) ==
    /\ 0 <= market.yes_price /\ market.yes_price <= One
    /\ 0 <= market.no_price /\ market.no_price <= One

\* A call as build_portfolios_from_covers makes it with a cover of
\* derive_covers_from_implications: hedge.py 219-225, 239-245, 314-321.
PipelineCall ==
    /\ cv_in.fn = "build"
    /\ cv_in.cover_probability = NECESSARY_PROBABILITY
    /\ <<cv_in.target_position, cv_in.cover_position>>
          \in {<<"YES", "NO">>, <<"NO", "YES">>}
    /\ cv_in.cover_market.id # cv_in.target_market.id
    /\ InUnitRange(cv_in.target_market) /\ InUnitRange(cv_in.cover_market)

PipelinePortfolio == cv_pc = "built" /\ PipelineCall /\ ~cv_out.none

\* C28 as stated, on the fields of the record: a portfolio of the pipeline has
\* coverage >= 0.98 and total_cost >= 0.5, tier 1 when its total_cost is below
\* 1.0 and tier 4 otherwise.
C28_PipelineTiers ==
    PipelinePortfolio =>
        /\ cv_out.coverage >= NECESSARY_PROBABILITY * 1000
        /\ cv_out.total_cost >= One \div 2
        /\ cv_out.tier = IF cv_out.total_cost < One THEN 1 ELSE 4

\* The same with the cost taken before rounding, as coverage.py 191 takes it:
\* the sum of the two prices.
C28_TiersByUnroundedCost ==
    PipelinePortfolio =>
        /\ cv_out.coverage >= NECESSARY_PROBABILITY * 1000
        /\ cv_out.total_cost >= One \div 2
        /\ TargetPrice + CoverPrice >= One \div 2
        /\ cv_out.tier = IF TargetPrice + CoverPrice < One THEN 1 ELSE 4

\* Portfolios of the pipeline in tier 1 and in tier 4.
C28_WitnessTierOne == PipelinePortfolio /\ cv_out.tier = 1
C28_WitnessTierFour == PipelinePortfolio /\ cv_out.tier = 4

-----------------------------------------------------------------------------
(* Claims about entries without a question, checked under SpecCovers *)

\* The entry's id is the id of no candidate and its question is missing or
\* empty.
UnknownIdNoQuestion(e, markets) ==
    /\ e.type = "object"
    /\ e.market_id.type = "string"
    /\ \A i \in 1..Len(markets) : markets[i].id # e.market_id.s
    /\ "market_question" \in DOMAIN e
          => e.market_question.type = "string" /\ e.market_question.s = <<>>

\* C27: derive_covers_from_implications returns no cover for entries whose
\* market_id is the id of no candidate and whose market_question is missing or
\* empty.
C27_NoCoverWithoutQuestion ==
    (/\ dc_pc = "derived"
     /\ AllEntries(dc_llm) # <<>>
     /\ \A i \in 1..Len(AllEntries(dc_llm)) :
           UnknownIdNoQuestion(AllEntries(dc_llm)[i], dc_markets))
        => ~dc_covers.exc /\ dc_covers.val = <<>>

\* The same entries when the first candidate is the target: no cover.
C27_WitnessTargetFirst ==
    /\ dc_pc = "derived"
    /\ AllEntries(dc_llm) # <<>>
    /\ \A i \in 1..Len(AllEntries(dc_llm)) :
          UnknownIdNoQuestion(AllEntries(dc_llm)[i], dc_markets)
    /\ dc_target = dc_markets[1]
    /\ dc_covers.val = <<>>

-----------------------------------------------------------------------------
(* Claims about the orders of one sell_robust call, checked under Spec *)

Accepted == {i \in 1..Len(orders) : orders[i].accepted}

\* C26: of the orders one sell_robust call submits at most one is accepted;
\* nothing is submitted after a Fill-or-Kill order that was accepted, and at
\* most one good-till-cancelled order is submitted, as the last order.
C26_AtMostOneAccepted ==
    /\ Cardinality(Accepted) <= 1
    /\ \A i \in 1..Len(orders) :
          (orders[i].type = "FOK" /\ orders[i].accepted) => i = Len(orders)
    /\ Len(GtcOrders) <= 1
    /\ \A i \in 1..Len(orders) : orders[i].type = "GTC" => i = Len(orders)

\* With a proxy, Fill-or-Kill orders were retried and the one
\* good-till-cancelled order was refused: the call has returned.
C26_Witness ==
    /\ proxy
    /\ Len(FokOrders) >= 2
    /\ Len(GtcOrders) = 1 /\ ~orders[Len(orders)].accepted
    /\ sell_ret.returned

\* A Fill-or-Kill order was accepted on a retry.
C26_WitnessFokAccepted ==
    /\ Len(FokOrders) >= 2 /\ orders[Len(orders)].accepted
    /\ orders[Len(orders)].type = "FOK" /\ sell_ret.returned

\* C29: the price of the good-till-cancelled order is not above the price of
\* the Fill-or-Kill orders submitted before it.
C29_FallbackNotAbove ==
    \A i, j \in 1..Len(orders) :
        (orders[i].type = "FOK" /\ orders[j].type = "GTC")
            => orders[j].price <= orders[i].price

\* At a market price of 0.02 and of 0.50 the fallback is not above.
C29_WitnessNotAbove ==
    /\ unwanted_price > 1
    /\ Len(FokOrders) >= 1 /\ Len(GtcOrders) = 1

-----------------------------------------------------------------------------
(* lib/llm_client.py LLMClient.complete *)

\* llm_client.py 27.
LLM_MAX_RETRIES == 3

\* max_tokens of a call: None (0 here, as falsy) or a count.
MaxTokens == {0, 256}

\* What one client.post and the lines after it can come to: a reply of status 200
\* with the content in its place, a reply of status 200 without it
\* (response.json() or the lookup raises), a reply of an error status
\* (raise_for_status raises httpx.HTTPStatusError), no reply (httpx.RequestError).
Statuses == {400, 401, 429, 500, 503}
RequestErrors == {"ConnectError", "ReadTimeout"}
PostOutcomes ==
    {[kind |-> "content"], [kind |-> "no_content"]}
    \cup {[kind |-> "status", status_code |-> c] : c \in Statuses}
    \cup {[kind |-> "request_error", error |-> e] : e \in RequestErrors}

RECURSIVE Pow2(_)
Pow2(n) == IF n = 0 THEN 1 ELSE 2 * Pow2(n - 1)

LlmInit ==
    /\ ll_pc = "complete"
    /\ ll_in \in [max_tokens : MaxTokens]
    /\ ll_payload = {}
    /\ ll_attempt = 0
    /\ ll_requests = <<>>
    /\ ll_sleeps = <<>>
    /\ ll_out = [kind |-> "none"]

\* llm_client.py 93-101: the client and the request body.
Complete ==
    /\ ll_pc = "complete"
    /\ ll_payload' = {"model", "messages", "temperature"}
                        \cup (IF ll_in.max_tokens # 0 THEN {"max_tokens"} ELSE {})
    /\ ll_pc' = "loop"
    /\ UNCHANGED <<ll_in, ll_attempt, ll_requests, ll_sleeps, ll_out>>
    /\ UNCHANGED <<tradeVars, liqVars, scanVars, coversVars, covVars, arbVars, gammaVars>>

\* llm_client.py 103-125: one pass of the loop, the request and what follows it.
Post ==
    /\ ll_pc = "loop"
    /\ ll_attempt < LLM_MAX_RETRIES
    /\ \E outcome \in PostOutcomes :
        /\ ll_requests' = Append(ll_requests, outcome)
        /\ IF outcome.kind = "content"
           THEN /\ ll_out' = [kind |-> "text"]
                /\ ll_pc' = "returned"
                /\ UNCHANGED <<ll_attempt, ll_sleeps>>
           ELSE IF outcome.kind = "status" /\ outcome.status_code = 429
           THEN /\ ll_sleeps' = Append(ll_sleeps, Pow2(ll_attempt))
                /\ ll_attempt' = ll_attempt + 1
                /\ UNCHANGED <<ll_pc, ll_out>>
           ELSE IF outcome.kind = "request_error"
                   /\ ll_attempt < LLM_MAX_RETRIES - 1
           THEN /\ ll_sleeps' = Append(ll_sleeps, 1)
                /\ ll_attempt' = ll_attempt + 1
                /\ UNCHANGED <<ll_pc, ll_out>>
           ELSE /\ ll_out' = [kind |-> "raised", error |-> outcome]
                /\ ll_pc' = "raised"
                /\ UNCHANGED <<ll_attempt, ll_sleeps>>
    /\ UNCHANGED <<ll_in, ll_payload>>
    /\ UNCHANGED <<tradeVars, liqVars, scanVars, coversVars, covVars, arbVars, gammaVars>>

\* llm_client.py 127: the loop has run out.
Failed ==
    /\ ll_pc = "loop"
    /\ ll_attempt >= LLM_MAX_RETRIES
    /\ ll_out' = [kind |-> "raised", error |-> [kind |-> "RuntimeError"]]
    /\ ll_pc' = "raised"
    /\ UNCHANGED <<ll_in, ll_payload, ll_attempt, ll_requests, ll_sleeps>>
    /\ UNCHANGED <<tradeVars, liqVars, scanVars, coversVars, covVars, arbVars, gammaVars>>

InitLlm == TradeIdle /\ LiqIdle /\ ScanIdle /\ CoversIdle /\ CoverageIdle /\ ArbitrageIdle /\ LlmInit /\ GammaIdle

NextLlm ==
    \/ Complete
    \/ Post
    \/ Failed

SpecLlm == InitLlm /\ [][NextLlm]_vars

-----------------------------------------------------------------------------
(* Claims about LLMClient.complete, checked under SpecLlm *)

RateLimited(outcome) == outcome.kind = "status" /\ outcome.status_code = 429

\* At most LLM_MAX_RETRIES requests are sent per call, and a call whose requests
\* were all rate-limited ends with an error after as many requests, having
\* waited 2^attempt seconds after each.
LlmBoundedAndBackoff ==
    /\ Len(ll_requests) <= LLM_MAX_RETRIES
    /\ (ll_pc \in {"returned", "raised"}
        /\ \A i \in 1..Len(ll_requests) : RateLimited(ll_requests[i]))
          => /\ ll_out.kind = "raised"
             /\ Len(ll_requests) = LLM_MAX_RETRIES
             /\ ll_sleeps = [i \in 1..LLM_MAX_RETRIES |-> Pow2(i - 1)]

\* C22: complete sends at most LLM_MAX_RETRIES requests; a request is followed
\* by another only when it was rate-limited (status 429), after a wait of
\* 2^attempt seconds; any other failure is raised after the first failing
\* request; a call whose requests were all rate-limited ends with an error.
C22_RetryOnlyOnRateLimit ==
    /\ LlmBoundedAndBackoff
    /\ \A i \in 1..(Len(ll_requests) - 1) :
          RateLimited(ll_requests[i]) /\ ll_sleeps[i] = Pow2(i - 1)

\* The same without the request errors: what holds of the replies.
C22_RepliesOnly ==
    (\A i \in 1..Len(ll_requests) : ll_requests[i].kind # "request_error")
        => C22_RetryOnlyOnRateLimit

\* Three rate-limited requests, and the error raised.
C22_WitnessExhausted ==
    /\ ll_pc = "raised" /\ ll_out.error.kind = "RuntimeError"
    /\ Len(ll_requests) = LLM_MAX_RETRIES

-----------------------------------------------------------------------------
(* lib/gamma_client.py _parse_market and search_markets.  A record of the
   catalog is an object whose fields are JSON values; the text of a string
   field that is parsed is a sequence of tokens, as for the oracle's reply.
   Prices and volumes are in hundredths. *)

DigitChars == <<"0", "1", "2", "3", "4", "5", "6", "7", "8", "9">>
IsDigit(c) == \E d \in 1..10 : DigitChars[d] = c
DigitValue(c) == (CHOOSE d \in 1..10 : DigitChars[d] = c) - 1

RECURSIVE digits_value(_)
digits_value(chars) ==
    IF chars = <<>> THEN 0
    ELSE 10 * digits_value(SubSeq(chars, 1, Len(chars) - 1))
            + DigitValue(chars[Len(chars)])

\* float() of a str of digits with at most one point and at most two decimals:
\* the number in hundredths.  Any other str is a ValueError.
float_of_str(chars) ==
    LET points == {i \in 1..Len(chars) : chars[i] = "."}
        well_formed == /\ \A i \in 1..Len(chars) : IsDigit(chars[i]) \/ chars[i] = "."
                       /\ Cardinality(points) <= 1
                       /\ \E i \in 1..Len(chars) : IsDigit(chars[i])
        point == IF points = {} THEN Len(chars) + 1 ELSE CHOOSE i \in points : TRUE
        whole == SubSeq(chars, 1, point - 1)
        decimals == SubSeq(chars \o <<"0", "0">>, point + 1, point + 2)
    IN IF well_formed
       THEN [exc |-> "none", val |-> 100 * digits_value(whole) + digits_value(decimals)]
       ELSE [exc |-> "ValueError", val |-> 0]

\* float(x) of a JSON value.
float_of(v) ==
    CASE v.type = "number" -> [exc |-> "none", val |-> v.n]
      [] v.type = "string" -> float_of_str(v.s)
      [] OTHER -> [exc |-> "TypeError", val |-> 0]

\* json.loads(data.get(key, default)): the argument must be a str.
loads_field(data, key, default) ==
    LET v == json_get(data, key, JStr(default))
    IN IF v.type # "string" THEN [exc |-> "TypeError", val |-> JNull]
       ELSE LET parsed == json_loads(v.s)
            IN IF parsed.ok THEN [exc |-> "none", val |-> parsed.val]
               ELSE [exc |-> "JSONDecodeError", val |-> JNull]

\* v[i], i counted from 0, and len(v).
subscript(v, i) ==
    CASE v.type = "list" /\ i < Len(v.items) -> [exc |-> "none", val |-> v.items[i + 1]]
      [] v.type = "list" -> [exc |-> "IndexError", val |-> JNull]
      [] v.type = "string" /\ i < Len(v.s) -> [exc |-> "none", val |-> JStr(<<v.s[i + 1]>>)]
      [] v.type = "string" -> [exc |-> "IndexError", val |-> JNull]
      [] OTHER -> [exc |-> "TypeError", val |-> JNull]

len_of(v) ==
    CASE v.type = "list" -> [exc |-> "none", val |-> Len(v.items)]
      [] v.type = "string" -> [exc |-> "none", val |-> Len(v.s)]
      [] v.type = "object" -> [exc |-> "none", val |-> Cardinality(DOMAIN v) - 1]
      [] OTHER -> [exc |-> "TypeError", val |-> 0]

\* gamma_client.py 254, 256: x[0] if x else the default; present tells that
\* the item was taken.
first_item(v) ==
    IF truthy(v)
    THEN LET item == subscript(v, 0)
         IN [exc |-> item.exc, present |-> TRUE, val |-> item.val]
    ELSE [exc |-> "none", present |-> FALSE, val |-> JNull]

\* gamma_client.py 255, 257: x[1] if len(x) > 1 else the default.
second_item(v) ==
    LET length == len_of(v)
    IN IF length.exc # "none"
       THEN [exc |-> length.exc, present |-> FALSE, val |-> JNull]
       ELSE IF length.val > 1
       THEN LET item == subscript(v, 1)
            IN [exc |-> item.exc, present |-> TRUE, val |-> item.val]
       ELSE [exc |-> "none", present |-> FALSE, val |-> JNull]

\* gamma_client.py 256, 257: float(item) of an item taken, else 0.5.
price_or_half(item) ==
    IF item.exc # "none" THEN [exc |-> item.exc, val |-> 0]
    ELSE IF item.present THEN float_of(item.val)
    ELSE [exc |-> "none", val |-> 50]

\* gamma_client.py 258: float(data.get("volume", 0) or 0).
volume_of(data) ==
    LET v == json_get(data, "volume", JNum(0))
    IN float_of(IF truthy(v) THEN v ELSE JNum(0))

\* The first exception of the steps, in the order Python takes them.
RECURSIVE first_exception(_)
first_exception(steps) ==
    IF steps = <<>> THEN "none"
    ELSE IF Head(steps).exc # "none" THEN Head(steps).exc
    ELSE first_exception(Tail(steps))

\* The text "[0.5, 0.5]", default of outcomePrices, and "[]", of clobTokenIds.
DefaultPricesText == <<TokV("value", JList(<<JNum(50), JNum(50)>>))>>
EmptyListText == <<TokV("value", JList(<<>>))>>

\* gamma_client.py 244-266.  Of the Market, the id, the two prices and the
\* volume are kept; volume24hr and liquidity are converted as the volume is.
parse_market(data) ==
    LET clob_tokens == loads_field(data, "clobTokenIds", EmptyListText)
        prices == loads_field(data, "outcomePrices", DefaultPricesText)
        yes_token_id == first_item(clob_tokens.val)
        no_token_id == second_item(clob_tokens.val)
        yes_price == price_or_half(first_item(prices.val))
        no_price == price_or_half(second_item(prices.val))
        volume == volume_of(data)
        raised == first_exception(<<clob_tokens, prices, yes_token_id, no_token_id,
                                    yes_price, no_price, volume>>)
    IN IF raised # "none"
       THEN [exc |-> raised]
       ELSE [exc |-> "none",
             market |-> [id |-> json_get(data, "id", JStr(<<>>)),
                         yes_price |-> yes_price.val, no_price |-> no_price.val,
                         volume |-> volume.val]]

\* gamma_client.py 108-111: the loop over the markets of one event; returned
\* tells that the function has returned from inside the loop.
RECURSIVE event_markets_loop(_, _, _)
event_markets_loop(event_markets, limit, markets) ==
    IF event_markets = <<>>
    THEN [exc |-> "none", returned |-> FALSE, markets |-> markets]
    ELSE LET parsed == parse_market(Head(event_markets))
         IN IF parsed.exc # "none"
            THEN [exc |-> parsed.exc, returned |-> FALSE, markets |-> markets]
            ELSE LET appended == Append(markets, parsed.market)
                 IN IF Len(appended) >= limit
                    THEN [exc |-> "none", returned |-> TRUE, markets |-> appended]
                    ELSE event_markets_loop(Tail(event_markets), limit, appended)

\* gamma_client.py 106-113: the loop over the events.
RECURSIVE events_loop(_, _, _)
events_loop(events, limit, markets) ==
    IF events = <<>>
    THEN [exc |-> "none", returned |-> FALSE, markets |-> markets]
    ELSE LET event_markets == json_get(Head(events), "markets", JList(<<>>))
             done == event_markets_loop(event_markets.items, limit, markets)
         IN IF done.exc # "none" \/ done.returned THEN done
            ELSE events_loop(Tail(events), limit, done.markets)

\* gamma_client.py 97-113, search_data being what public_search returned.
search_markets(search_data, limit) ==
    LET done == events_loop(json_get(search_data, "events", JList(<<>>)).items,
                            limit, <<>>)
    IN [exc |-> done.exc, markets |-> done.markets]

\* Texts of string fields.
ListText(items) == <<TokV("value", JList(items))>>
Decimal60 == JStr(<<"0", ".", "6">>)
Decimal40 == JStr(<<"0", ".", "4", "0">>)

\* outcomePrices of a record: missing (none), null, the text of a list of two
\* decimal strings, of an empty list, of a list of one, a text that is not
\* JSON, the text of a list with an entry that is no number, with a null entry,
\* the texts null and 5, a list that is not a text.
PricesFields ==
    { [none |-> TRUE],
      JNull,
      JStr(ListText(<<Decimal60, Decimal40>>)),
      JStr(ListText(<<>>)),
      JStr(ListText(<<Decimal60>>)),
      JStr(<<Tok("prose")>>),
      JStr(ListText(<<JStr(<<"a", "b", "c">>), Decimal40>>)),
      JStr(ListText(<<Decimal60, JNull>>)),
      JStr(<<TokV("value", JNull)>>),
      JStr(<<TokV("value", JNum(5))>>),
      JList(<<JNum(60), JNum(40)>>) }

\* volume of a record: missing, null, a number, a decimal string, a string that
\* is no number, the empty string, a list.
VolumeFields ==
    { [none |-> TRUE],
      JNull,
      JNum(120050),
      JStr(<<"1", "2", ".", "5">>),
      JStr(<<"n", "/", "a">>),
      JStr(<<>>),
      JList(<<JNum(1)>>) }

\* clobTokenIds of a record: missing, the text of a list of two ids, null.
TokenFields ==
    { [none |-> TRUE],
      JStr(ListText(<<JStr(<<"7">>), JStr(<<"8">>)>>)),
      JNull }

\* The record with the fields that are there.
CatalogRecord(id, prices, volume, tokens) ==
    LET keys == {"type", "id"}
                  \cup (IF "none" \in DOMAIN prices THEN {} ELSE {"outcomePrices"})
                  \cup (IF "none" \in DOMAIN volume THEN {} ELSE {"volume"})
                  \cup (IF "none" \in DOMAIN tokens THEN {} ELSE {"clobTokenIds"})
    IN [k \in keys |->
          CASE k = "type" -> "object"
            [] k = "id" -> JStr(id)
            [] k = "outcomePrices" -> prices
            [] k = "volume" -> volume
            [] k = "clobTokenIds" -> tokens]

ParseInputs ==
    {[fn |-> "parse", data |-> CatalogRecord(<<"1">>, p, v, t)] :
        p \in PricesFields, v \in VolumeFields, t \in TokenFields}

\* Records of a search reply: two that parse and one whose prices are null.
RecordOne ==
    CatalogRecord(<<"1">>, JStr(ListText(<<Decimal60, Decimal40>>)), JNum(120050),
                  [none |-> TRUE])
RecordTwo == CatalogRecord(<<"2">>, [none |-> TRUE], JNull, [none |-> TRUE])
RecordNullPrices == CatalogRecord(<<"3">>, JNull, JNum(0), [none |-> TRUE])

\* Events of a search reply, the last without the key markets.
SearchEvents ==
    { [type |-> "object", markets |-> JList(<<RecordOne, RecordTwo>>)],
      [type |-> "object", markets |-> JList(<<RecordTwo>>)],
      [type |-> "object", markets |-> JList(<<>>)],
      [type |-> "object", markets |-> JList(<<RecordTwo, RecordNullPrices, RecordOne>>)],
      [type |-> "object"] }

\* Most events in a search reply.
MaxEvents == 2

SearchReplies ==
    {[type |-> "object", events |-> JList(events)] :
        events \in SeqsUpTo(SearchEvents, MaxEvents)}
    \cup {[type |-> "object"]}

\* limit of search_markets: --limit of the scan, an int.
SearchLimits == {0, 1, 2, 3}

SearchInputs == [fn : {"search"}, search_data : SearchReplies, limit : SearchLimits]

GammaInit ==
    /\ gm_in \in ParseInputs \cup SearchInputs
    /\ gm_pc = gm_in.fn
    /\ gm_out = [exc |-> "none"]

\* gamma_client.py 244-266
ParseMarket ==
    /\ gm_pc = "parse"
    /\ gm_pc' = "parsed"
    /\ gm_out' = parse_market(gm_in.data)
    /\ UNCHANGED gm_in
    /\ UNCHANGED <<tradeVars, liqVars, scanVars, coversVars, covVars, arbVars, llmVars>>

\* gamma_client.py 97-113; public_search (77-95) returns the reply or raises
\* on an error status.
SearchMarkets ==
    /\ gm_pc = "search"
    /\ gm_pc' = "searched"
    /\ \/ gm_out' = search_markets(gm_in.search_data, gm_in.limit)
       \/ gm_out' = [exc |-> "HTTPStatusError", markets |-> <<>>]
    /\ UNCHANGED gm_in
    /\ UNCHANGED <<tradeVars, liqVars, scanVars, coversVars, covVars, arbVars, llmVars>>

InitGamma == TradeIdle /\ LiqIdle /\ ScanIdle /\ CoversIdle /\ CoverageIdle /\ ArbitrageIdle /\ LlmIdle /\ GammaInit

NextGamma ==
    \/ ParseMarket
    \/ SearchMarkets

SpecGamma == InitGamma /\ [][NextGamma]_vars

-----------------------------------------------------------------------------
(* Claims about the catalog client, checked under SpecGamma *)

\* The prices of the record are there and can be read: the text of a list of
\* two numbers.
PricesWellFormed(data) ==
    /\ "outcomePrices" \in DOMAIN data
    /\ data.outcomePrices.type = "string"
    /\ json_loads(data.outcomePrices.s).ok
    /\ LET list == json_loads(data.outcomePrices.s).val
       IN /\ list.type = "list" /\ Len(list.items) = 2
          /\ \A i \in 1..2 : float_of(list.items[i]).exc = "none"

VolumeWellFormed(data) ==
    "volume" \in DOMAIN data /\ float_of(data.volume).exc = "none"

\* C23: _parse_market returns a Market for every record and raises nothing; a
\* record whose prices are missing or malformed gets the price 0.5, one whose
\* volume is missing or malformed the volume 0.
C23_NeutralDefaults ==
    gm_pc = "parsed" =>
        /\ gm_out.exc = "none"
        /\ ~PricesWellFormed(gm_in.data)
              => gm_out.market.yes_price = 50 /\ gm_out.market.no_price = 50
        /\ ~VolumeWellFormed(gm_in.data) => gm_out.market.volume = 0

\* What holds: a record whose fields are missing gets the defaults.
C23_MissingFieldsDefaulted ==
    (gm_pc = "parsed" /\ DOMAIN gm_in.data = {"type", "id"})
        => /\ gm_out.exc = "none"
           /\ gm_out.market.yes_price = 50 /\ gm_out.market.no_price = 50
           /\ gm_out.market.volume = 0

\* The ids of the records of a reply, in event order then market order.
RECURSIVE RecordIds(_)
RecordIds(events) ==
    IF events = <<>> THEN <<>>
    ELSE LET records == json_get(Head(events), "markets", JList(<<>>)).items
         IN [i \in 1..Len(records) |-> records[i].id] \o RecordIds(Tail(events))

Searched == gm_pc = "searched" /\ gm_out.exc = "none"

TakenInOrder ==
    LET ids == RecordIds(json_get(gm_in.search_data, "events", JList(<<>>)).items)
        found == gm_out.markets
    IN /\ Len(found) <= Len(ids)
       /\ \A i \in 1..Len(found) : found[i].id = ids[i]

\* C25: search_markets returns at most limit markets, for every limit, 0
\* included, the markets taken in event order, then in market order within an
\* event.
C25_AtMostLimit ==
    Searched => Len(gm_out.markets) <= gm_in.limit /\ TakenInOrder

\* What holds: the same for a limit of 1 or more.
C25_AtMostPositiveLimit ==
    (Searched /\ gm_in.limit >= 1)
        => Len(gm_out.markets) <= gm_in.limit /\ TakenInOrder

\* A search that stopped at the limit inside the second event.
C25_WitnessCut ==
    /\ Searched /\ gm_in.limit = 3 /\ Len(gm_out.markets) = 3
    /\ Len(RecordIds(gm_in.search_data.events.items)) > 3


====
